---------------------------- MODULE Spec2Model ----------------------------
(***************************************************************************)
(* Model of packages/@n8n/nodes-langchain/nodes/tools/ToolHttpRequest/     *)
(* utils.ts: configureHttpRequestFunction (the authenticated HTTP call     *)
(* dispatcher) and configureResponseOptimizer (the response optimizer).    *)
(*                                                                         *)
(* JavaScript values are tagged records [t, v].  A JavaScript string is a  *)
(* sequence of one-character strings, so that splitting, trimming, JSON    *)
(* serialisation and JSON parsing are computed character by character.     *)
(* An object is a function from keys (strings) to values; JSON.stringify   *)
(* writes the keys in a fixed order (KeyOrder) and the model does not      *)
(* keep the insertion order of keys.                                       *)
(***************************************************************************)
EXTENDS Integers, Sequences, FiniteSets, TLC

(***************************************************************************)
(* Bounds of the model.                                                    *)
(***************************************************************************)
\* number of concurrent calls (items of a batch)
NumCalls == 2
\* how many times a caller invokes one returned request function
MaxInvocations == 2

(***************************************************************************)
(* JavaScript values.                                                      *)
(***************************************************************************)
Undefined == [t |-> "undefined", v |-> 0]
Null == [t |-> "null", v |-> 0]
Bool(b) == [t |-> "bool", v |-> b]
Num(n) == [t |-> "num", v |-> n]
Str(s) == [t |-> "str", v |-> s]
Arr(q) == [t |-> "arr", v |-> q]
Obj(f) == [t |-> "obj", v |-> f]
EmptyObject == Obj([k \in {} |-> Undefined])

\* typeof x
TypeOf(x) ==
  CASE x.t = "undefined" -> "undefined"
    [] x.t = "bool" -> "boolean"
    [] x.t = "num" -> "number"
    [] x.t = "str" -> "string"
    [] OTHER -> "object"

\* the truthiness test of `if (x)` and `!x`
Truthy(x) ==
  CASE x.t = "undefined" -> FALSE
    [] x.t = "null" -> FALSE
    [] x.t = "bool" -> x.v
    [] x.t = "num" -> x.v # 0
    [] x.t = "str" -> Len(x.v) > 0
    [] OTHER -> TRUE

\* x[key] for an own property of an object; undefined when there is none
Prop(x, key) ==
  IF x.t = "obj" /\ key \in DOMAIN x.v THEN x.v[key] ELSE Undefined

\* the assignment x[key] = val on an object
WithProp(x, key, val) ==
  Obj([k \in DOMAIN x.v \cup {key} |-> IF k = key THEN val ELSE x.v[k]])

\* delete x[key]
WithoutProp(x, key) ==
  Obj([k \in DOMAIN x.v \ {key} |-> x.v[k]])

(***************************************************************************)
(* Property names used by the code, as strings.                            *)
(***************************************************************************)
kHeaders == <<"h", "e", "a", "d", "e", "r", "s">>
kQs == <<"q", "s">>
kBody == <<"b", "o", "d", "y">>
kUsername == <<"u", "s", "e", "r", "n", "a", "m", "e">>
kPassword == <<"p", "a", "s", "s", "w", "o", "r", "d">>
kSendImmediately ==
  <<"s", "e", "n", "d", "I", "m", "m", "e", "d", "i", "a", "t", "e", "l", "y">>
kA == <<"a">>
kB == <<"b">>
kC == <<"c">>
kX == <<"X">>
kN == <<"n">>

\* the order in which JSON.stringify writes the keys of an object
KeyOrder ==
  <<kHeaders, kQs, kBody, kUsername, kPassword, kSendImmediately,
    kA, kB, kC, kX, kN, <<"0">>, <<"1">>>>

(***************************************************************************)
(* JSON.stringify(value, null, indent), character by character.            *)
(***************************************************************************)
RECURSIVE Spaces(_)
Spaces(n) == IF n <= 0 THEN <<>> ELSE <<" ">> \o Spaces(n - 1)

\* a line break followed by the indentation of level `depth`; nothing when
\* no indent is asked for
Newline(indent, depth) ==
  IF indent = 0 THEN <<>> ELSE <<"\n">> \o Spaces(indent * depth)

Quote(s) == <<"\"">> \o s \o <<"\"">>

RECURSIVE Stringify(_, _, _)
RECURSIVE StringifyElements(_, _, _, _)
RECURSIVE StringifyMembers(_, _, _, _, _)

\* the elements of an array from index i on: undefined is written as null
StringifyElements(q, i, indent, depth) ==
  IF i > Len(q) THEN <<>>
  ELSE (IF i > 1 THEN <<",">> ELSE <<>>)
       \o Newline(indent, depth)
       \o (IF q[i].t = "undefined" THEN <<"n", "u", "l", "l">>
           ELSE Stringify(q[i], indent, depth))
       \o StringifyElements(q, i + 1, indent, depth)

\* the members of an object from position i of KeyOrder on: a member whose
\* value is undefined is left out
StringifyMembers(f, i, first, indent, depth) ==
  IF i > Len(KeyOrder) THEN <<>>
  ELSE LET k == KeyOrder[i] IN
       IF k \notin DOMAIN f \/ f[k].t = "undefined"
       THEN StringifyMembers(f, i + 1, first, indent, depth)
       ELSE (IF first THEN <<>> ELSE <<",">>)
            \o Newline(indent, depth)
            \o Quote(k) \o <<":">>
            \o (IF indent = 0 THEN <<>> ELSE <<" ">>)
            \o Stringify(f[k], indent, depth)
            \o StringifyMembers(f, i + 1, FALSE, indent, depth)

Stringify(x, indent, depth) ==
  CASE x.t = "null" -> <<"n", "u", "l", "l">>
    [] x.t = "bool" -> IF x.v THEN <<"t", "r", "u", "e">>
                       ELSE <<"f", "a", "l", "s", "e">>
    [] x.t = "num" -> <<ToString(x.v)>>
    [] x.t = "str" -> Quote(x.v)
    [] x.t = "arr" ->
         IF Len(x.v) = 0 THEN <<"[", "]">>
         ELSE <<"[">> \o StringifyElements(x.v, 1, indent, depth + 1)
              \o Newline(indent, depth) \o <<"]">>
    [] x.t = "obj" ->
         LET body == StringifyMembers(x.v, 1, TRUE, indent, depth + 1) IN
         IF Len(body) = 0 THEN <<"{", "}">>
         ELSE <<"{">> \o body \o Newline(indent, depth) \o <<"}">>
    [] OTHER -> <<>>

\* JSON.stringify(x, null, 2): a string, or undefined for undefined
JSONstringify(x) ==
  IF x.t = "undefined" THEN Undefined ELSE Str(Stringify(x, 2, 0))

\* JSON.stringify(x): the compact form, used to write credential texts
JSONtext(x) == Stringify(x, 0, 0)

(***************************************************************************)
(* JSON.parse(text), a recursive-descent parser over the characters.       *)
(* A result is [ok, val, pos]: pos is the first character not consumed.    *)
(***************************************************************************)
Whitespace == {" ", "\n", "\r", "\t"}
Digits == {ToString(n) : n \in 0..9}
ParseFail == [ok |-> FALSE, val |-> Undefined, pos |-> 0]
ParseOk(val, pos) == [ok |-> TRUE, val |-> val, pos |-> pos]

RECURSIVE SkipWs(_, _)
SkipWs(s, i) ==
  IF i <= Len(s) /\ s[i] \in Whitespace THEN SkipWs(s, i + 1) ELSE i

\* whether the word w stands at position i of s
Lookahead(s, i, w) ==
  i + Len(w) - 1 <= Len(s) /\ SubSeq(s, i, i + Len(w) - 1) = w

\* the position of the closing quote of a string whose text starts at i
RECURSIVE ClosingQuote(_, _)
ClosingQuote(s, i) ==
  IF i > Len(s) THEN 0
  ELSE IF s[i] = "\"" THEN i
  ELSE IF s[i] \in {"\n", "\r", "\t"} THEN 0
  ELSE ClosingQuote(s, i + 1)

RECURSIVE ParseValue(_, _)
RECURSIVE ParseElements(_, _, _)
RECURSIVE ParseMembers(_, _, _)

\* after "[" or ",": one element, then "," or "]"
ParseElements(s, i, acc) ==
  LET r == ParseValue(s, i) IN
  IF ~r.ok THEN ParseFail
  ELSE LET j == SkipWs(s, r.pos) IN
       IF j > Len(s) THEN ParseFail
       ELSE IF s[j] = "," THEN ParseElements(s, j + 1, Append(acc, r.val))
       ELSE IF s[j] = "]" THEN ParseOk(Arr(Append(acc, r.val)), j + 1)
       ELSE ParseFail

\* after "{" or ",": one "key": value member, then "," or "}"
ParseMembers(s, i, acc) ==
  LET j == SkipWs(s, i) IN
  IF j > Len(s) \/ s[j] # "\"" THEN ParseFail
  ELSE LET q == ClosingQuote(s, j + 1) IN
       IF q = 0 THEN ParseFail
       ELSE LET key == SubSeq(s, j + 1, q - 1)
                c == SkipWs(s, q + 1)
            IN IF c > Len(s) \/ s[c] # ":" THEN ParseFail
               ELSE LET r == ParseValue(s, c + 1) IN
                    IF ~r.ok THEN ParseFail
                    ELSE LET e == SkipWs(s, r.pos)
                             next == WithProp(acc, key, r.val)
                         IN IF e > Len(s) THEN ParseFail
                            ELSE IF s[e] = "," THEN ParseMembers(s, e + 1, next)
                            ELSE IF s[e] = "}" THEN ParseOk(next, e + 1)
                            ELSE ParseFail

ParseValue(s, i) ==
  LET j == SkipWs(s, i) IN
  IF j > Len(s) THEN ParseFail
  ELSE CASE s[j] = "{" ->
              LET e == SkipWs(s, j + 1) IN
              IF e <= Len(s) /\ s[e] = "}" THEN ParseOk(EmptyObject, e + 1)
              ELSE ParseMembers(s, j + 1, EmptyObject)
         [] s[j] = "[" ->
              LET e == SkipWs(s, j + 1) IN
              IF e <= Len(s) /\ s[e] = "]" THEN ParseOk(Arr(<<>>), e + 1)
              ELSE ParseElements(s, j + 1, <<>>)
         [] s[j] = "\"" ->
              LET q == ClosingQuote(s, j + 1) IN
              IF q = 0 THEN ParseFail
              ELSE ParseOk(Str(SubSeq(s, j + 1, q - 1)), q + 1)
         [] s[j] \in Digits ->
              IF j + 1 <= Len(s) /\ s[j + 1] \in Digits THEN ParseFail
              ELSE ParseOk(Num(CHOOSE n \in 0..9 : ToString(n) = s[j]), j + 1)
         [] Lookahead(s, j, <<"n", "u", "l", "l">>) -> ParseOk(Null, j + 4)
         [] Lookahead(s, j, <<"t", "r", "u", "e">>) -> ParseOk(Bool(TRUE), j + 4)
         [] Lookahead(s, j, <<"f", "a", "l", "s", "e">>) ->
              ParseOk(Bool(FALSE), j + 5)
         [] OTHER -> ParseFail

\* JSON.parse: [ok, val]; ok is FALSE when the text is not JSON
JSONparse(s) ==
  LET r == ParseValue(s, 1) IN
  IF r.ok /\ SkipWs(s, r.pos) > Len(s) THEN [ok |-> TRUE, val |-> r.val]
  ELSE [ok |-> FALSE, val |-> Undefined]


(***************************************************************************)
(* What is thrown: an error has a name, a message and, when the throw site *)
(* gives one, the index of the item.  The messages of the errors the       *)
(* engine and the collaborators raise are not modelled.                    *)
(***************************************************************************)
JsError(name, message, itemIndex) ==
  [name |-> name, message |-> message, itemIndex |-> itemIndex]

NoError == JsError("none", "", Undefined)
\* new NodeOperationError(ctx.getNode(), message, { itemIndex })
NodeOperationError(message, itemIndex) ==
  JsError("NodeOperationError", message, itemIndex)
\* what jsonParse throws when it is given an errorMessage
ApplicationError(message) == JsError("ApplicationError", message, Undefined)
\* what JSON.parse throws
SyntaxError == JsError("SyntaxError", "", Undefined)
\* a property read or written on undefined or null
TypeError == JsError("TypeError", "", Undefined)
\* the rejections of ctx.getCredentials and of the request helpers
CredentialsError == JsError("CredentialsError", "", Undefined)
CollaboratorError == JsError("CollaboratorError", "", Undefined)

(***************************************************************************)
(* jsonParse(text, {errorMessage}) of n8n-workflow: JSON.parse, and when   *)
(* the text is not JSON an error carrying the given message.               *)
(***************************************************************************)
\* with no errorMessage option the SyntaxError of JSON.parse is rethrown
jsonParse(s, errorMessage) ==
  LET r == JSONparse(s) IN
  IF r.ok THEN [threw |-> NoError, val |-> r.val]
  ELSE [threw |-> IF errorMessage = "" THEN SyntaxError
                  ELSE ApplicationError(errorMessage),
        val |-> Undefined]

(***************************************************************************)
(* String helpers: split(','), trim().                                     *)
(***************************************************************************)
\* s.split(sep): the pieces between the separators, empty pieces kept
RECURSIVE SplitFrom(_, _, _, _)
SplitFrom(s, sep, i, piece) ==
  IF i > Len(s) THEN <<piece>>
  ELSE IF s[i] = sep THEN <<piece>> \o SplitFrom(s, sep, i + 1, <<>>)
  ELSE SplitFrom(s, sep, i + 1, Append(piece, s[i]))

Split(s, sep) == SplitFrom(s, sep, 1, <<>>)

RECURSIVE TrimStart(_)
TrimStart(s) ==
  IF Len(s) > 0 /\ s[1] \in Whitespace THEN TrimStart(Tail(s)) ELSE s

RECURSIVE TrimEnd(_)
TrimEnd(s) ==
  IF Len(s) > 0 /\ s[Len(s)] \in Whitespace
  THEN TrimEnd(SubSeq(s, 1, Len(s) - 1))
  ELSE s

Trim(s) == TrimEnd(TrimStart(s))

\* x.split(',').map((s) => s.trim())
SplitAndTrim(s) == [i \in 1..Len(Split(s, ",")) |-> Trim(Split(s, ",")[i])]

(***************************************************************************)
(* lodash get, set and unset over objects.  A path is a string: it is      *)
(* split at its dots (stringToPath).  Bounds of the model: keys hold no    *)
(* dot, so lodash's preference for an own key spelled like the whole path  *)
(* never applies; paths hold no brackets and no array indices; the sharing *)
(* of a nested object between a source item and the object set() writes    *)
(* it into is not tracked.                                                 *)
(***************************************************************************)
stringToPath(path) == Split(path, ".")

IsObject(x) == x.t \in {"obj", "arr"}

\* get(object, path) along the keys from position i on
RECURSIVE baseGet(_, _, _)
baseGet(object, keys, i) ==
  IF i > Len(keys) THEN object
  ELSE IF object.t \in {"undefined", "null"} THEN Undefined
  ELSE baseGet(Prop(object, keys[i]), keys, i + 1)

get(object, path) ==
  IF object.t \in {"undefined", "null"} THEN Undefined
  ELSE baseGet(object, stringToPath(path), 1)

\* set(object, path, value) along the keys from position i on: a key on the
\* way whose value is not an object gets a new empty object; a key that is
\* no index, assigned on an array, is no element of it and is not serialised
RECURSIVE baseSet(_, _, _, _)
baseSet(object, keys, i, value) ==
  IF object.t = "arr" THEN object
  ELSE IF i = Len(keys) THEN WithProp(object, keys[i], value)
  ELSE WithProp(object, keys[i],
                baseSet(IF IsObject(Prop(object, keys[i]))
                        THEN Prop(object, keys[i]) ELSE EmptyObject,
                        keys, i + 1, value))

set(object, path, value) ==
  IF object.t # "obj" THEN object
  ELSE baseSet(object, stringToPath(path), 1, value)

\* unset(object, path) along the keys from position i on: the last key is
\* deleted from its parent, when the parent is there
RECURSIVE baseUnset(_, _, _)
baseUnset(object, keys, i) ==
  IF object.t # "obj" THEN object
  ELSE IF i = Len(keys) THEN WithoutProp(object, keys[i])
  ELSE IF keys[i] \in DOMAIN object.v
  THEN WithProp(object, keys[i], baseUnset(object.v[keys[i]], keys, i + 1))
  ELSE object

unset(object, path) == baseUnset(object, stringToPath(path), 1)

(***************************************************************************)
(* The json branch of configureResponseOptimizer, step by step.            *)
(***************************************************************************)
\* a plausible slip: the data field is followed as a dotted path
DataAt_dotted(data, dataField) == get(data, dataField)

\* data[dataField]: the data field names one property
DataAt(data, dataField) == Prop(data, dataField)

\* responseData after the dataField step: the array the projection runs on
WorkingArray(responseData, dataField) ==
  IF responseData.t # "arr"
  THEN IF Len(dataField) > 0
       THEN IF DataAt(responseData, dataField).t = "arr"
            THEN DataAt(responseData, dataField).v
            ELSE <<DataAt(responseData, dataField)>>
       ELSE <<responseData>>
  ELSE IF Len(dataField) > 0
       THEN [i \in 1..Len(responseData.v) |->
               DataAt(responseData.v[i], dataField)]
       ELSE responseData.v

\* the fields parameter as a list of paths: a string is split at its commas
\* and each piece trimmed
FieldList(fields) ==
  IF fields.t = "str" THEN SplitAndTrim(fields.v)
  ELSE [i \in 1..Len(fields.v) |-> fields.v[i].v]

\* the inner loop of `selected`: set(newItem, field, get(item, field))
RECURSIVE SelectFrom(_, _, _, _)
SelectFrom(item, fieldList, i, newItem) ==
  IF i > Len(fieldList) THEN newItem
  ELSE SelectFrom(item, fieldList, i + 1,
                  set(newItem, fieldList[i], get(item, fieldList[i])))

\* the inner loop of `except`: unset(item, field)
RECURSIVE UnsetFrom(_, _, _)
UnsetFrom(item, fieldList, i) ==
  IF i > Len(fieldList) THEN item
  ELSE UnsetFrom(unset(item, fieldList[i]), fieldList, i + 1)

SelectedItems(items, fieldList) ==
  [i \in 1..Len(items) |-> SelectFrom(items[i], fieldList, 1, EmptyObject)]

\* a plausible slip: `except` removes only the first field
ExceptItems_firstOnly(items, fieldList) ==
  [i \in 1..Len(items) |->
     IF Len(fieldList) = 0 THEN items[i] ELSE unset(items[i], fieldList[1])]

ExceptItems(items, fieldList) ==
  [i \in 1..Len(items) |-> UnsetFrom(items[i], fieldList, 1)]

\* a plausible slip: with `all` nothing is copied into returnData
ReturnData_allEmpty(items, fieldsToInclude, fields) ==
  CASE fieldsToInclude = "selected" -> SelectedItems(items, FieldList(fields))
    [] fieldsToInclude = "except" -> ExceptItems(items, FieldList(fields))
    [] OTHER -> <<>>

\* returnData, by fieldsToInclude
ReturnData(items, fieldsToInclude, fields) ==
  CASE fieldsToInclude = "all" -> items
    [] fieldsToInclude = "selected" -> SelectedItems(items, FieldList(fields))
    [] fieldsToInclude = "except" -> ExceptItems(items, FieldList(fields))
    [] OTHER -> <<>>

\* the caller's response object after `except` unset the fields of its
\* items in place: each item is put back where the working array took it
ResponseAfterUnset(responseData, dataField, newItems) ==
  IF responseData.t # "arr"
  THEN IF Len(dataField) > 0
       THEN IF dataField \in DOMAIN responseData.v
            THEN WithProp(responseData, dataField,
                          IF responseData.v[dataField].t = "arr"
                          THEN Arr(newItems) ELSE newItems[1])
            ELSE responseData
       ELSE newItems[1]
  ELSE IF Len(dataField) > 0
       THEN Arr([i \in 1..Len(responseData.v) |->
                   IF responseData.v[i].t = "obj"
                      /\ dataField \in DOMAIN responseData.v[i].v
                   THEN WithProp(responseData.v[i], dataField, newItems[i])
                   ELSE responseData.v[i]])
       ELSE Arr(newItems)

ResponseMustBeObject ==
  "The response type must be an object or an array of objects"
\* `The response type must be a string. Received: ${typeof response}`
ResponseMustBeString(response) ==
  CASE TypeOf(response) = "object" ->
         "The response type must be a string. Received: object"
    [] TypeOf(response) = "number" ->
         "The response type must be a string. Received: number"
    [] TypeOf(response) = "boolean" ->
         "The response type must be a string. Received: boolean"
    [] TypeOf(response) = "undefined" ->
         "The response type must be a string. Received: undefined"
    [] OTHER -> "The response type must be a string. Received: string"

\* the itemIndex configureResponseOptimizer was called with
OptimizerItemIndex == Num(0)

\* what an invocation of a built function yields: what it threw, the string
\* it returned, the caller's response object as it leaves it, the working
\* array (none outside the json branch), the parameters it read
Result(threw, output, response, working, reads) ==
  [threw |-> threw, output |-> output, response |-> response,
   working |-> working, reads |-> reads]

\* the json function from the dataField step on; the caller's object is
\* touched only when it was passed as an object and fields are unset
JsonProject(response, responseData, p) ==
  Result(NoError,
         JSONstringify(Arr(ReturnData(WorkingArray(responseData, p.dataField),
                                      p.fieldsToInclude, p.fields))),
         IF response.t # "str" /\ p.fieldsToInclude = "except"
         THEN ResponseAfterUnset(
                responseData, p.dataField,
                ReturnData(WorkingArray(responseData, p.dataField),
                           p.fieldsToInclude, p.fields))
         ELSE response,
         WorkingArray(responseData, p.dataField),
         IF p.fieldsToInclude = "all" THEN <<"dataField", "fieldsToInclude">>
         ELSE <<"dataField", "fieldsToInclude", "fields">>)

\* a plausible slip: only typeof is tested, so null passes
JsonChecked_nullPasses(response, parsed, p) ==
  IF parsed.threw # NoError
  THEN Result(parsed.threw, Undefined, response, <<>>, <<>>)
  ELSE IF TypeOf(parsed.val) # "object"
  THEN Result(NodeOperationError(ResponseMustBeObject, OptimizerItemIndex),
              Undefined, response, <<>>, <<>>)
  ELSE JsonProject(response, parsed.val, p)

\* the json function after the parse of a string response
JsonChecked(response, parsed, p) ==
  IF parsed.threw # NoError
  THEN Result(parsed.threw, Undefined, response, <<>>, <<>>)
  ELSE IF TypeOf(parsed.val) # "object" \/ ~Truthy(parsed.val)
  THEN Result(NodeOperationError(ResponseMustBeObject, OptimizerItemIndex), Undefined, response, <<>>, <<>>)
  ELSE JsonProject(response, parsed.val, p)

\* the function built for responseType json; p is the node's parameters,
\* which it reads when it runs
JsonOptimizer(response, p) ==
  JsonChecked(response,
              IF TypeOf(response) = "string"
              THEN jsonParse(response.v, "")
              ELSE [threw |-> NoError, val |-> response],
              p)

(***************************************************************************)
(* The text branch.                                                        *)
(***************************************************************************)
\* a plausible slip: maxLength is read when the function runs
TextOptimizer_readsLate(response, maxLength) ==
  IF TypeOf(response) # "string"
  THEN Result(NodeOperationError(ResponseMustBeString(response),
                                OptimizerItemIndex), Undefined, response, <<>>, <<>>)
  ELSE IF maxLength > 0 /\ Len(response.v) > maxLength
  THEN Result(NoError, Str(SubSeq(response.v, 1, maxLength)), response, <<>>,
              <<"maxLength">>)
  ELSE Result(NoError, response, response, <<>>, <<"maxLength">>)

\* a plausible slip: a response that is no string is passed through
TextOptimizer_noTypeCheck(response, maxLength) ==
  IF TypeOf(response) # "string"
  THEN Result(NoError, response, response, <<>>, <<>>)
  ELSE IF maxLength > 0 /\ Len(response.v) > maxLength
  THEN Result(NoError, Str(SubSeq(response.v, 1, maxLength)), response, <<>>,
              <<>>)
  ELSE Result(NoError, response, response, <<>>, <<>>)

\* a plausible slip: the cut text gets a truncation marker
TextOptimizer_marker(response, maxLength) ==
  IF TypeOf(response) # "string"
  THEN Result(NodeOperationError(ResponseMustBeString(response),
                                OptimizerItemIndex),
              Undefined, response, <<>>, <<>>)
  ELSE IF maxLength > 0 /\ Len(response.v) > maxLength
  THEN Result(NoError,
              Str(SubSeq(response.v, 1, maxLength) \o <<".", ".", ".">>),
              response, <<>>, <<>>)
  ELSE Result(NoError, response, response, <<>>, <<>>)

TextOptimizer(response, maxLength) ==
  IF TypeOf(response) # "string"
  THEN Result(NodeOperationError(ResponseMustBeString(response),
                                OptimizerItemIndex), Undefined, response, <<>>, <<>>)
  ELSE IF maxLength > 0 /\ Len(response.v) > maxLength
  THEN Result(NoError, Str(SubSeq(response.v, 1, maxLength)), response, <<>>,
              <<>>)
  ELSE Result(NoError, response, response, <<>>, <<>>)

(***************************************************************************)
(* The html branch.  Bounds of the model: a document is built of elements  *)
(* <name>...</name> without attributes, a selector is a tag name, and an   *)
(* element does not contain an element of its own name.  html-to-text's    *)
(* convert is modelled as dropping the tags, and the subtrees it is told   *)
(* to skip.                                                                *)
(***************************************************************************)
OpenTag(name) == <<"<">> \o name \o <<">">>
CloseTag(name) == <<"<", "/">> \o name \o <<">">>
Element(name, inner) == OpenTag(name) \o inner \o CloseTag(name)

\* the first position from i on where the word w stands, or Len(s) + 1
RECURSIVE Find(_, _, _)
Find(s, w, i) ==
  IF i > Len(s) THEN Len(s) + 1
  ELSE IF Lookahead(s, i, w) THEN i
  ELSE Find(s, w, i + 1)

\* a plausible slip: only the first matched element is taken
InnerHtmls_firstOnly(s, name, i) ==
  IF Len(name) = 0 \/ Find(s, OpenTag(name), i) > Len(s) THEN <<>>
  ELSE <<SubSeq(s, Find(s, OpenTag(name), i) + Len(name) + 2,
                Find(s, CloseTag(name), Find(s, OpenTag(name), i)) - 1)>>

\* html(cssSelector) and, for each element, html(el).html(): the inner
\* HTML of the elements named `name`, in document order, from position i on
RECURSIVE InnerHtmls(_, _, _)
InnerHtmls(s, name, i) ==
  IF Len(name) = 0 \/ Find(s, OpenTag(name), i) > Len(s) THEN <<>>
  ELSE <<SubSeq(s, Find(s, OpenTag(name), i) + Len(name) + 2,
                Find(s, CloseTag(name), Find(s, OpenTag(name), i)) - 1)>>
       \o InnerHtmls(s, name,
                     Find(s, CloseTag(name), Find(s, OpenTag(name), i)) + 1)

\* the text with the elements named `name` removed, from position i on
RECURSIVE SkipElements(_, _, _)
SkipElements(s, name, i) ==
  IF i > Len(s) THEN <<>>
  ELSE IF Len(name) = 0 \/ Find(s, OpenTag(name), i) > Len(s)
  THEN SubSeq(s, i, Len(s))
  ELSE SubSeq(s, i, Find(s, OpenTag(name), i) - 1)
       \o SkipElements(s, name,
                       Find(s, CloseTag(name), Find(s, OpenTag(name), i))
                       + Len(name) + 3)

RECURSIVE SkipAll(_, _, _)
SkipAll(s, selectors, i) ==
  IF i > Len(selectors) THEN s
  ELSE SkipAll(SkipElements(s, selectors[i], 1), selectors, i + 1)

\* the text outside the tags, from position i on
RECURSIVE DropTags(_, _)
DropTags(s, i) ==
  IF i > Len(s) THEN <<>>
  ELSE IF s[i] = "<" THEN DropTags(s, Find(s, <<">">>, i) + 1)
  ELSE <<s[i]>> \o DropTags(s, i + 1)

\* convert(value, {selectors: [{selector, format: 'skip'}, ...]})
convert(value, selectors) == DropTags(SkipAll(value, selectors, 1), 1)

\* a plausible slip: a line break is replaced by a space
RECURSIVE RemoveNewlines_toSpace(_)
RemoveNewlines_toSpace(s) ==
  IF Len(s) = 0 THEN <<>>
  ELSE IF s[1] \in {"\n", "\r"} THEN <<" ">> \o RemoveNewlines_toSpace(Tail(s))
  ELSE <<s[1]>> \o RemoveNewlines_toSpace(Tail(s))

\* .replace(/(\r\n|\n|\r)/gm, '')
RECURSIVE RemoveNewlines(_)
RemoveNewlines(s) ==
  IF Len(s) = 0 THEN <<>>
  ELSE IF s[1] \in {"\n", "\r"} THEN RemoveNewlines(Tail(s))
  ELSE <<s[1]>> \o RemoveNewlines(Tail(s))

\* .replace(/\s+/g, ' ')
RECURSIVE CollapseWhitespace(_)
CollapseWhitespace(s) ==
  IF Len(s) = 0 THEN <<>>
  ELSE IF s[1] \in Whitespace
  THEN <<" ">> \o CollapseWhitespace(TrimStart(s))
  ELSE <<s[1]>> \o CollapseWhitespace(Tail(s))

\* value.trim().replace(/^\s+|\s+$/g, '').replace(...).replace(...)
Normalize(value) == CollapseWhitespace(RemoveNewlines(Trim(Trim(value))))

\* the options handed to convert: undefined when elementsToOmit has no
\* entry, else one skip selector for each entry, empty or not
htmlToTextOptions(elementsToOmit) ==
  IF Len(elementsToOmit) > 0
  THEN [defined |-> TRUE,
        selectors |-> [i \in 1..Len(elementsToOmit) |->
                         [selector |-> elementsToOmit[i], format |-> "skip"]]]
  ELSE [defined |-> FALSE, selectors |-> <<>>]

\* the text of one matched element as it is pushed to returnData
HtmlValue(inner, onlyContent, elementsToOmit) ==
  Normalize(IF onlyContent
            THEN convert(inner,
                   [i \in 1..Len(htmlToTextOptions(elementsToOmit).selectors)
                      |-> htmlToTextOptions(elementsToOmit).selectors[i]
                            .selector])
            ELSE inner)

HtmlOptimizer(response, cssSelector, onlyContent, elementsToOmit) ==
  IF TypeOf(response) # "string"
  THEN Result(NodeOperationError(ResponseMustBeString(response),
                                OptimizerItemIndex), Undefined, response, <<>>, <<>>)
  ELSE Result(NoError,
              JSONstringify(Arr(
                [i \in 1..Len(InnerHtmls(response.v, cssSelector, 1)) |->
                   Str(HtmlValue(InnerHtmls(response.v, cssSelector, 1)[i],
                                 onlyContent, elementsToOmit))])),
              response, <<>>, <<>>)

(***************************************************************************)
(* The function returned when the response is not optimized.               *)
(***************************************************************************)
\* String(response) for the values that are no string and no object
ToStringOf(x) ==
  CASE x.t = "undefined" -> <<"u", "n", "d", "e", "f", "i", "n", "e", "d">>
    [] x.t = "bool" -> IF x.v THEN <<"t", "r", "u", "e">>
                       ELSE <<"f", "a", "l", "s", "e">>
    [] x.t = "num" -> <<ToString(x.v)>>
    [] OTHER -> <<>>

\* a plausible slip: a string response is serialised like an object
FallbackSerializer_quotes(response) ==
  IF TypeOf(response) \in {"string", "object"}
  THEN Result(NoError, JSONstringify(response), response, <<>>, <<>>)
  ELSE Result(NoError, Str(ToStringOf(response)), response, <<>>, <<>>)

FallbackSerializer(response) ==
  IF TypeOf(response) = "string"
  THEN Result(NoError, response, response, <<>>, <<>>)
  ELSE IF TypeOf(response) = "object"
  THEN Result(NoError, JSONstringify(response), response, <<>>, <<>>)
  ELSE Result(NoError, Str(ToStringOf(response)), response, <<>>, <<>>)

(***************************************************************************)
(* The state.                                                              *)
(***************************************************************************)
VARIABLES
  \* --- the environment of the dispatcher, one entry per call (item) ---
  nodeParams,       \* the node parameters auth, genericAuthType, nodeCredentialType
  credVariant,      \* which credentials the credential store holds for the item
  callerRequests,   \* the request objects the caller may pass
  invocationLimit,  \* how many times the caller invokes the returned function
  \* --- configureHttpRequestFunction, one entry per call ---
  pc,               \* where the call is
  fn,               \* the function returned: its strategy and captured values
  requestOptions,   \* the caller's request object (mutated in place)
  original,         \* the request object as the caller passed it
  credLookups,      \* the calls made to ctx.getCredentials
  sent,             \* the collaborator calls made by the running invocation
  invocations,      \* how many invocations were started
  error,            \* what the last resolution or invocation threw
  \* --- configureResponseOptimizer ---
  optParams,        \* the node parameters that shape the response
  paramReads,       \* how often ctx.getNodeParameter read each of them
  optPc,            \* "start", then "built" once the function is returned
  optimizer,        \* the function returned: its branch and captured values
  optInput,         \* the response the caller passed: its form and value
  optResponse,      \* the caller's response object after the invocation
  optResult,        \* what the invocation threw, returned and worked on
  optInvocations,   \* how many invocations were made
  manager,          \* License.manager: the installed LicenseManager, if any
  installs,         \* how many LicenseManagers were assigned to it
  initCalls,        \* how many calls of License.init were made
  licensePc,        \* what each caller of the License object awaits
  lastAnswer,       \* what the last isFeatureEnabled call returned
  state             \* the state of the users store: currentUserId, users

dispatcherVars ==
  <<nodeParams, credVariant, callerRequests, invocationLimit, pc, fn,
    requestOptions, original, credLookups, sent, invocations, error>>

optimizerVars ==
  <<optParams, paramReads, optPc, optimizer, optInput, optResponse, optResult,
    optInvocations>>

licenseVars == <<manager, installs, initCalls, licensePc, lastAnswer>>

usersVars == <<state>>

vars == <<dispatcherVars, optimizerVars, licenseVars, usersVars>>

Calls == 1..NumCalls

(***************************************************************************)
(* getOAuth2AdditionalParameters: the static table, and the lookup.        *)
(***************************************************************************)
Unset == "unset"
OAuth2Options(tokenType, onBody, statusCode, property, keepBearer, key) ==
  [tokenType |-> tokenType, includeCredentialsOnRefreshOnBody |-> onBody,
   tokenExpiredStatusCode |-> statusCode, property |-> property,
   keepBearer |-> keepBearer, keyToIncludeInAccessTokenHeader |-> key]

oAuth2Options ==
  [bitlyOAuth2Api |-> OAuth2Options("Bearer", Unset, Unset, Unset, Unset, Unset),
   boxOAuth2Api |-> OAuth2Options(Unset, "true", Unset, Unset, Unset, Unset),
   ciscoWebexOAuth2Api |->
     OAuth2Options("Bearer", Unset, Unset, Unset, Unset, Unset),
   clickUpOAuth2Api |->
     OAuth2Options("Bearer", Unset, Unset, Unset, "false", Unset),
   goToWebinarOAuth2Api |->
     OAuth2Options(Unset, Unset, "403", Unset, Unset, Unset),
   hubspotDeveloperApi |->
     OAuth2Options("Bearer", "true", Unset, Unset, Unset, Unset),
   hubspotOAuth2Api |->
     OAuth2Options("Bearer", "true", Unset, Unset, Unset, Unset),
   lineNotifyOAuth2Api |->
     OAuth2Options("Bearer", Unset, Unset, Unset, Unset, Unset),
   linkedInOAuth2Api |->
     OAuth2Options("Bearer", Unset, Unset, Unset, Unset, Unset),
   mailchimpOAuth2Api |->
     OAuth2Options("Bearer", Unset, Unset, Unset, Unset, Unset),
   mauticOAuth2Api |-> OAuth2Options(Unset, "true", Unset, Unset, Unset, Unset),
   microsoftDynamicsOAuth2Api |->
     OAuth2Options(Unset, Unset, Unset, "id_token", Unset, Unset),
   philipsHueOAuth2Api |->
     OAuth2Options("Bearer", Unset, Unset, Unset, Unset, Unset),
   raindropOAuth2Api |->
     OAuth2Options(Unset, "true", Unset, Unset, Unset, Unset),
   shopifyOAuth2Api |->
     OAuth2Options("Bearer", Unset, Unset, Unset, Unset,
                   "X-Shopify-Access-Token"),
   slackOAuth2Api |->
     OAuth2Options("Bearer", Unset, Unset, "authed_user.access_token", Unset,
                   Unset),
   stravaOAuth2Api |-> OAuth2Options(Unset, "true", Unset, Unset, Unset, Unset)]

NoOAuth2Options == OAuth2Options(Unset, Unset, Unset, Unset, Unset, Unset)

\* oAuth2Options[nodeCredentialType]: the entry, or undefined
getOAuth2AdditionalParameters(nodeCredentialType) ==
  IF nodeCredentialType \in DOMAIN oAuth2Options
  THEN [defined |-> TRUE, entry |-> oAuth2Options[nodeCredentialType]]
  ELSE [defined |-> FALSE, entry |-> NoOAuth2Options]

(***************************************************************************)
(* The environment: node parameters, stored credentials, caller requests.  *)
(***************************************************************************)
CredentialKinds ==
  {"httpBasicAuth", "httpDigestAuth", "httpHeaderAuth", "httpQueryAuth",
   "httpCustomAuth"}
GenericKinds == CredentialKinds \cup {"oAuth1Api", "oAuth2Api"}
\* a generic kind the code does not know
UnknownKind == "httpBearerAuth"
\* an auth value that is none of the three the type names
UnknownAuthMode == "oAuth2"
\* predefined credential types: two of the table, one that is not in it
PredefinedTypes == {"slackOAuth2Api", "boxOAuth2Api", "githubApi"}

NodeParams(auth, kind, type) ==
  [auth |-> auth, genericAuthType |-> kind, nodeCredentialType |-> type]

NodeParamsChoices ==
  {NodeParams("none", "", "")}
  \cup {NodeParams("genericCredentialType", k, "") :
          k \in GenericKinds \cup {UnknownKind}}
  \cup {NodeParams("predefinedCredentialType", "", t) : t \in PredefinedTypes}
  \cup {NodeParams(UnknownAuthMode, "httpHeaderAuth", "slackOAuth2Api")}

Text(c) == <<ToString(c)>>
sOld == Str(<<"o", "l", "d">>)
sKeep == Str(<<"k", "e", "e", "p">>)

\* the texts a custom-auth credential may hold in its json field
CustomAuthFull(c) ==
  Obj(kHeaders :> Obj(kX :> Str(Text(c)) @@ kA :> Str(Text(c)))
      @@ kQs :> Obj(kX :> Str(Text(c)))
      @@ kBody :> Obj(kX :> Obj(kC :> Num(c))))
CustomAuthHeadersOnly(c) == Obj(kHeaders :> Obj(kA :> Str(Text(c))))
CustomAuthJson(c, variant) ==
  CASE variant = 1 -> JSONtext(CustomAuthFull(c))
    [] variant = 2 -> JSONtext(CustomAuthHeadersOnly(c))
    [] variant = 3 -> <<>>
    [] variant = 4 ->
         SubSeq(JSONtext(CustomAuthFull(c)), 1,
                Len(JSONtext(CustomAuthFull(c))) - 1)
    [] OTHER -> JSONtext(Null)
CredVariants == 1..5

Credential(user, password, name, value, json) ==
  [user |-> user, password |-> password, name |-> name, value |-> value,
   json |-> json]

\* what the credential store holds for an item under a credential type; the
\* values name the item and the type, so that they tell where they came from
StoredCredential(type, itemIndex, variant) ==
  CASE type = "httpBasicAuth" ->
         Credential(Str(<<"u", "B">> \o Text(itemIndex)),
                    Str(<<"p", "B">> \o Text(itemIndex)),
                    Undefined, Undefined, Undefined)
    [] type = "httpDigestAuth" ->
         Credential(Str(<<"u", "D">> \o Text(itemIndex)),
                    Str(<<"p", "D">> \o Text(itemIndex)),
                    Undefined, Undefined, Undefined)
    [] type = "httpHeaderAuth" ->
         Credential(Undefined, Undefined,
                    IF variant % 2 = 1 THEN kX ELSE kA,
                    Str(<<"h">> \o Text(itemIndex)), Undefined)
    [] type = "httpQueryAuth" ->
         Credential(Undefined, Undefined,
                    IF variant % 2 = 1 THEN kX ELSE kA,
                    Str(<<"q">> \o Text(itemIndex)), Undefined)
    [] OTHER ->
         Credential(Undefined, Undefined, Undefined, Undefined,
                    Str(CustomAuthJson(itemIndex, variant)))

NoCredential ==
  Credential(Undefined, Undefined, Undefined, Undefined, Undefined)

Request(headers, qs, body, auth) ==
  [headers |-> headers, qs |-> qs, body |-> body, auth |-> auth]

\* every field set, with keys the credentials also use
RequestFull ==
  Request(Obj(kX :> sOld @@ kB :> sKeep),
          Obj(kX :> sOld @@ kB :> sKeep),
          Obj(kX :> Obj(kN :> Num(0)) @@ kB :> sKeep),
          Obj(kUsername :> sOld @@ kPassword :> sOld))
\* only an empty headers object
RequestBare == Request(EmptyObject, Undefined, Undefined, Undefined)
\* no headers object
RequestNoHeaders ==
  Request(Undefined, Obj(kB :> sKeep), Undefined, Undefined)
Requests == {RequestFull, RequestBare, RequestNoHeaders}
NoRequest == Request(Undefined, Undefined, Undefined, Undefined)


(***************************************************************************)
(* The functions configureHttpRequestFunction returns.  Each takes the     *)
(* captured values f and the caller's request object r, and yields what it *)
(* threw, the request object as it leaves it, and the collaborator calls   *)
(* it made, in order.                                                      *)
(***************************************************************************)
Outcome(threw, request, calls) ==
  [threw |-> threw, request |-> request, calls |-> calls]

\* one call of a collaborator; the request is the caller's object itself
CollaboratorCall(collaborator, credentialsType, request, options, itemIndex) ==
  [collaborator |-> collaborator, credentialsType |-> credentialsType,
   request |-> request, options |-> options, itemIndex |-> itemIndex]

NoOptions == [shape |-> "undefined", value |-> NoOAuth2Options]
BearerOptions ==
  [shape |-> "IOAuth2Options",
   value |-> OAuth2Options("Bearer", Unset, Unset, Unset, Unset, Unset)]
OAuth2Wrapper(entry) == [shape |-> "oauth2", value |-> entry]
NoItemIndex == 0

httpRequest(r) ==
  CollaboratorCall("httpRequest", "", r, NoOptions, NoItemIndex)

\* the own enumerable properties that {...x} copies
Spread(x) ==
  CASE x.t = "obj" -> x.v
    [] x.t = "arr" ->
         [k \in {<<ToString(i - 1)>> : i \in 1..Len(x.v)} |->
            x.v[CHOOSE i \in 1..Len(x.v) : <<ToString(i - 1)>> = k]]
    [] x.t = "str" ->
         [k \in {<<ToString(i - 1)>> : i \in 1..Len(x.v)} |->
            Str(<<x.v[CHOOSE i \in 1..Len(x.v) : <<ToString(i - 1)>> = k]>>)]
    [] OTHER -> [k \in {} |-> Undefined]

\* a plausible slip: the keys of the request win over the injected ones
MergeSection_originalWins(orig, inj) == Obj(Spread(orig) @@ Spread(inj))

\* { ...orig, ...inj }
MergeSection(orig, inj) == Obj(Spread(inj) @@ Spread(orig))

\* `return await ctx.helpers.httpRequest(requestOptions)`
SendRequest(r) == Outcome(NoError, r, <<httpRequest(r)>>)

\* a plausible slip: an auth value the request already holds is kept
BasicAuthRequest_keepsAuth(f, r) ==
  IF Truthy(r.auth) THEN SendRequest(r)
  ELSE SendRequest([r EXCEPT !.auth =
                      Obj(kUsername :> f.credential.user
                          @@ kPassword :> f.credential.password
                          @@ kSendImmediately :> f.sendImmediately)])

BasicAuthRequest(f, r) ==
  SendRequest([r EXCEPT !.auth =
                 Obj(kUsername :> f.credential.user
                     @@ kPassword :> f.credential.password
                     @@ kSendImmediately :> f.sendImmediately)])

\* a plausible slip: the headers object is replaced by one holding the key
HeaderAuthRequest_replace(f, r) ==
  SendRequest([r EXCEPT !.headers =
                 WithProp(EmptyObject, f.credential.name, f.credential.value)])

HeaderAuthRequest(f, r) ==
  IF r.headers.t \in {"undefined", "null"}
  THEN Outcome(TypeError, r, <<>>)
  ELSE SendRequest([r EXCEPT !.headers =
                      WithProp(Obj(Spread(r.headers)), f.credential.name,
                               f.credential.value)])

\* a plausible slip: qs is always started anew
QueryAuthRequest_fresh(f, r) ==
  SendRequest([r EXCEPT !.qs =
                 WithProp(EmptyObject, f.credential.name, f.credential.value)])

QueryAuthRequest(f, r) ==
  SendRequest([r EXCEPT !.qs =
                 WithProp(IF Truthy(r.qs) THEN Obj(Spread(r.qs))
                          ELSE EmptyObject,
                          f.credential.name, f.credential.value)])

InvalidCustomAuthJson == "Invalid Custom Auth JSON"

\* the three guarded merges, once the credential text is parsed
MergeCustomAuth(customAuth, r) ==
  [headers |-> IF Truthy(Prop(customAuth, kHeaders))
               THEN MergeSection(r.headers, Prop(customAuth, kHeaders))
               ELSE r.headers,
   body |-> IF Truthy(Prop(customAuth, kBody))
            THEN MergeSection(r.body, Prop(customAuth, kBody))
            ELSE r.body,
   qs |-> IF Truthy(Prop(customAuth, kQs))
          THEN MergeSection(r.qs, Prop(customAuth, kQs))
          ELSE r.qs,
   auth |-> r.auth]

CustomAuthApply(parsed, r) ==
  IF parsed.threw # NoError THEN Outcome(parsed.threw, r, <<>>)
  ELSE IF parsed.val.t = "null" THEN Outcome(TypeError, r, <<>>)
  ELSE SendRequest(MergeCustomAuth(parsed.val, r))

CustomAuthRequest(f, r) ==
  CustomAuthApply(
    jsonParse(IF Truthy(f.credential.json) THEN f.credential.json.v
              ELSE <<"{", "}">>,
              InvalidCustomAuthJson),
    r)

OAuth1Request(f, r) ==
  Outcome(NoError, r,
          <<CollaboratorCall("requestOAuth1", "oAuth1Api", r, NoOptions,
                             NoItemIndex)>>)

\* a plausible slip: the OAuth2 helper is called without the token type
OAuth2Request_noOptions(f, r) ==
  Outcome(NoError, r,
          <<CollaboratorCall("requestOAuth2", "oAuth1Api", r, NoOptions,
                             NoItemIndex)>>)

OAuth2Request(f, r) ==
  Outcome(NoError, r,
          <<CollaboratorCall("requestOAuth2", "oAuth1Api", r, BearerOptions,
                             NoItemIndex)>>)

\* a plausible slip: the wrapper is passed whether or not there is an entry
PredefinedRequest_alwaysWraps(f, r) ==
  Outcome(NoError, r,
          <<CollaboratorCall("requestWithAuthentication",
                             f.nodeCredentialType, r,
                             OAuth2Wrapper(f.additionalOAuth2Options.entry),
                             f.itemIndex)>>)

PredefinedRequest(f, r) ==
  Outcome(NoError, r,
          <<CollaboratorCall("requestWithAuthentication",
                             f.nodeCredentialType, r,
                             IF f.additionalOAuth2Options.defined
                             THEN OAuth2Wrapper(f.additionalOAuth2Options.entry)
                             ELSE NoOptions,
                             f.itemIndex)>>)

\* a plausible slip: the plain function sends the request without its body
PlainRequest_dropsBody(f, r) == SendRequest([r EXCEPT !.body = Undefined])

\* a plausible slip: the plain function clears the auth field before it sends
PlainRequest_clearsAuth(f, r) == SendRequest([r EXCEPT !.auth = Undefined])

\* a plausible slip: the plain function sends the request a second time
PlainRequest_twice(f, r) ==
  Outcome(NoError, r, <<httpRequest(r), httpRequest(r)>>)

PlainRequest(f, r) == SendRequest(r)

\* the returned function, by the branch that built it
RequestFunction(f, r) ==
  CASE f.strategy = "basic" -> BasicAuthRequest(f, r)
    [] f.strategy = "header" -> HeaderAuthRequest(f, r)
    [] f.strategy = "query" -> QueryAuthRequest(f, r)
    [] f.strategy = "custom" -> CustomAuthRequest(f, r)
    [] f.strategy = "oAuth1" -> OAuth1Request(f, r)
    [] f.strategy = "oAuth2" -> OAuth2Request(f, r)
    [] f.strategy = "predefined" -> PredefinedRequest(f, r)
    [] OTHER -> PlainRequest(f, r)

(***************************************************************************)
(* configureHttpRequestFunction(ctx, auth, itemIndex).                     *)
(***************************************************************************)
Function(strategy, credential, sendImmediately, type, additional, itemIndex) ==
  [strategy |-> strategy, credential |-> credential,
   sendImmediately |-> sendImmediately, nodeCredentialType |-> type,
   additionalOAuth2Options |-> additional, itemIndex |-> itemIndex]

NoFunction ==
  Function("", NoCredential, Undefined, "", getOAuth2AdditionalParameters(""),
           NoItemIndex)

\* a plausible slip: the credentials of the first item are asked for
CredentialsRequest_firstItem(genericCredentialType, itemIndex) ==
  [type |-> IF genericCredentialType = "httpDigestAuth" THEN "httpBasicAuth"
            ELSE genericCredentialType,
   itemIndex |-> 1]

\* the arguments of ctx.getCredentials in the branch of a generic kind
CredentialsRequest(genericCredentialType, itemIndex) ==
  [type |-> IF genericCredentialType = "httpDigestAuth" THEN "httpBasicAuth"
            ELSE genericCredentialType,
   itemIndex |-> itemIndex]

\* the strategy of the function built in the branch of a generic kind that
\* fetches credentials
StrategyOf(genericCredentialType) ==
  CASE genericCredentialType \in {"httpBasicAuth", "httpDigestAuth"} -> "basic"
    [] genericCredentialType = "httpHeaderAuth" -> "header"
    [] genericCredentialType = "httpQueryAuth" -> "query"
    [] OTHER -> "custom"

\* the item index a call is made with
ItemIndex(c) == c

\* a plausible slip: the credentials are asked for twice
configureHttpRequestFunction_lookupTwice(c) ==
  LET p == nodeParams[c]
      generic == p.auth = "genericCredentialType"
      kind == p.genericAuthType
  IN /\ pc[c] = "start"
     /\ IF generic /\ kind \in CredentialKinds
        THEN /\ credLookups' =
                  [credLookups EXCEPT ![c] =
                     Append(Append(@, CredentialsRequest(kind, ItemIndex(c))),
                            CredentialsRequest(kind, ItemIndex(c)))]
             /\ pc' = [pc EXCEPT ![c] = "awaitCredentials"]
             /\ fn' = fn
        ELSE /\ fn' = [fn EXCEPT ![c] =
                  CASE generic /\ kind = "oAuth1Api" ->
                         Function("oAuth1", NoCredential, Undefined, "",
                                  getOAuth2AdditionalParameters(""),
                                  ItemIndex(c))
                    [] generic /\ kind = "oAuth2Api" ->
                         Function("oAuth2", NoCredential, Undefined, "",
                                  getOAuth2AdditionalParameters(""),
                                  ItemIndex(c))
                    [] p.auth = "predefinedCredentialType" ->
                         Function("predefined", NoCredential, Undefined,
                                  p.nodeCredentialType,
                                  getOAuth2AdditionalParameters(
                                    p.nodeCredentialType),
                                  ItemIndex(c))
                    [] OTHER ->
                         Function("plain", NoCredential, Undefined, "",
                                  getOAuth2AdditionalParameters(""),
                                  ItemIndex(c))]
             /\ pc' = [pc EXCEPT ![c] = "resolved"]
             /\ credLookups' = credLookups
     /\ UNCHANGED <<licenseVars, usersVars, optimizerVars,
                    nodeParams, credVariant, callerRequests, invocationLimit,
                    requestOptions, original, sent, invocations, error>>

\* the call starts: the branches that need no credentials return their
\* function; the others ask for credentials and wait
configureHttpRequestFunction(c) ==
  LET p == nodeParams[c]
      generic == p.auth = "genericCredentialType"
      kind == p.genericAuthType
  IN /\ pc[c] = "start"
     /\ IF generic /\ kind \in CredentialKinds
        THEN /\ credLookups' =
                  [credLookups EXCEPT ![c] =
                     Append(@, CredentialsRequest(kind, ItemIndex(c)))]
             /\ pc' = [pc EXCEPT ![c] = "awaitCredentials"]
             /\ fn' = fn
        ELSE /\ fn' = [fn EXCEPT ![c] =
                  CASE generic /\ kind = "oAuth1Api" ->
                         Function("oAuth1", NoCredential, Undefined, "",
                                  getOAuth2AdditionalParameters(""),
                                  ItemIndex(c))
                    [] generic /\ kind = "oAuth2Api" ->
                         Function("oAuth2", NoCredential, Undefined, "",
                                  getOAuth2AdditionalParameters(""),
                                  ItemIndex(c))
                    [] p.auth = "predefinedCredentialType" ->
                         Function("predefined", NoCredential, Undefined,
                                  p.nodeCredentialType,
                                  getOAuth2AdditionalParameters(
                                    p.nodeCredentialType),
                                  ItemIndex(c))
                    [] OTHER ->
                         Function("plain", NoCredential, Undefined, "",
                                  getOAuth2AdditionalParameters(""),
                                  ItemIndex(c))]
             /\ pc' = [pc EXCEPT ![c] = "resolved"]
             /\ credLookups' = credLookups
     /\ UNCHANGED <<licenseVars, usersVars, optimizerVars,
                    nodeParams, credVariant, callerRequests, invocationLimit,
                    requestOptions, original, sent, invocations, error>>

\* ctx.getCredentials resolves: the function is built around the record
CredentialsReturn(c) ==
  LET asked == credLookups[c][Len(credLookups[c])]
      kind == nodeParams[c].genericAuthType
  IN /\ pc[c] = "awaitCredentials"
     /\ fn' = [fn EXCEPT ![c] =
          Function(StrategyOf(kind),
                   StoredCredential(asked.type, asked.itemIndex,
                                    credVariant[asked.itemIndex]),
                   IF kind = "httpDigestAuth" THEN Bool(FALSE) ELSE Undefined,
                   "", getOAuth2AdditionalParameters(""), ItemIndex(c))]
     /\ pc' = [pc EXCEPT ![c] = "resolved"]
     /\ UNCHANGED <<licenseVars, usersVars, optimizerVars,
                    nodeParams, credVariant, callerRequests, invocationLimit,
                    requestOptions, original, credLookups, sent, invocations,
                    error>>

\* ctx.getCredentials rejects: configureHttpRequestFunction rejects with it
CredentialsFail(c) ==
  /\ pc[c] = "awaitCredentials"
  /\ pc' = [pc EXCEPT ![c] = "resolveFailed"]
  /\ error' = [error EXCEPT ![c] = CredentialsError]
  /\ UNCHANGED <<licenseVars, usersVars, optimizerVars,
                 nodeParams, credVariant, callerRequests, invocationLimit, fn,
                 requestOptions, original, credLookups, sent, invocations>>

\* the caller invokes the returned function with a request object: the
\* function runs up to its await of the collaborator, or throws
Started(c, r, o) ==
  /\ original' = [original EXCEPT ![c] = r]
  /\ requestOptions' = [requestOptions EXCEPT ![c] = o.request]
  /\ sent' = [sent EXCEPT ![c] = o.calls]
  /\ error' = [error EXCEPT ![c] = o.threw]
  /\ pc' = [pc EXCEPT ![c] =
              IF o.threw = NoError THEN "awaitResponse" ELSE "threw"]

Invoke(c) ==
  /\ pc[c] \in {"resolved", "returned", "threw"}
  /\ invocations[c] < invocationLimit[c]
  /\ \E r \in callerRequests[c] : Started(c, r, RequestFunction(fn[c], r))
  /\ invocations' = [invocations EXCEPT ![c] = @ + 1]
  /\ UNCHANGED <<licenseVars, usersVars, optimizerVars,
                 nodeParams, credVariant, callerRequests, invocationLimit, fn,
                 credLookups>>

\* the collaborator resolves: the function returns its response
CollaboratorReturn(c) ==
  /\ pc[c] = "awaitResponse"
  /\ pc' = [pc EXCEPT ![c] = "returned"]
  /\ UNCHANGED <<licenseVars, usersVars, optimizerVars,
                 nodeParams, credVariant, callerRequests, invocationLimit, fn,
                 requestOptions, original, credLookups, sent, invocations,
                 error>>

\* the collaborator rejects: the function rejects with the same error
CollaboratorFail(c) ==
  /\ pc[c] = "awaitResponse"
  /\ pc' = [pc EXCEPT ![c] = "threw"]
  /\ error' = [error EXCEPT ![c] = CollaboratorError]
  /\ UNCHANGED <<licenseVars, usersVars, optimizerVars,
                 nodeParams, credVariant, callerRequests, invocationLimit, fn,
                 requestOptions, original, credLookups, sent, invocations>>

(***************************************************************************)
(* The state of configureResponseOptimizer while no call of it is under    *)
(* way, and the shape of its parameters and of the function it returns.    *)
(***************************************************************************)
ParamNames ==
  {"optimizeResponse", "responseType", "cssSelector", "onlyContent",
   "elementsToOmit", "maxLength", "dataField", "fieldsToInclude", "fields"}

OptParams(optimize, type, css, only, omit, maxLength, dataField, incl, fs) ==
  [optimizeResponse |-> optimize, responseType |-> type, cssSelector |-> css,
   onlyContent |-> only, elementsToOmit |-> omit, maxLength |-> maxLength,
   dataField |-> dataField, fieldsToInclude |-> incl, fields |-> fs]

Optimizer(kind, css, only, omit, maxLength) ==
  [kind |-> kind, cssSelector |-> css, onlyContent |-> only,
   elementsToOmit |-> omit, maxLength |-> maxLength]

NoOptimizer == Optimizer("", <<>>, FALSE, <<>>, 0)

NoResult == [threw |-> NoError, output |-> Undefined, working |-> <<>>]
NoInput == [form |-> "none", value |-> Undefined]

(***************************************************************************)
(* The License object and the users store, before anything is called.      *)
(***************************************************************************)
NumLicenseCalls == 2
LicenseCalls == 1..NumLicenseCalls

\* private manager: LicenseManager | undefined
NoManager == [id |-> 0, valid |-> FALSE, features |-> {}]

NoAnswer == [feature |-> "", enabled |-> FALSE]

LicenseIdle ==
  /\ manager = NoManager
  /\ installs = 0
  /\ initCalls = 0
  /\ licensePc = [k \in LicenseCalls |-> "idle"]
  /\ lastAnswer = NoAnswer

\* currentUserId: null
NoUser == "null"

\* state: { currentUserId: null, users: {} }
UsersIdle == state = [currentUserId |-> NoUser, users |-> <<>>]

OptimizerIdle ==
  /\ optParams = OptParams(FALSE, "json", <<>>, FALSE, Str(<<>>), 0, <<>>,
                           "all", Arr(<<>>))
  /\ paramReads = [n \in ParamNames |-> 0]
  /\ optPc = "unused"
  /\ optimizer = NoOptimizer
  /\ optInput = NoInput
  /\ optResponse = Undefined
  /\ optResult = NoResult
  /\ optInvocations = 0

DispatcherIdle ==
  /\ nodeParams = [c \in Calls |-> NodeParams("none", "", "")]
  /\ credVariant = [c \in Calls |-> 1]
  /\ callerRequests = [c \in Calls |-> {}]
  /\ invocationLimit = [c \in Calls |-> 0]
  /\ pc = [c \in Calls |-> "unused"]
  /\ fn = [c \in Calls |-> NoFunction]
  /\ requestOptions = [c \in Calls |-> NoRequest]
  /\ original = [c \in Calls |-> NoRequest]
  /\ credLookups = [c \in Calls |-> <<>>]
  /\ sent = [c \in Calls |-> <<>>]
  /\ invocations = [c \in Calls |-> 0]
  /\ error = [c \in Calls |-> NoError]

\* one call, with every configuration, credential and request of the model
InitDispatcher ==
  /\ OptimizerIdle
  /\ LicenseIdle
  /\ UsersIdle
  /\ \E p \in NodeParamsChoices :
       nodeParams = [c \in Calls |-> IF c = 1 THEN p
                                     ELSE NodeParams("none", "", "")]
  /\ \E v \in CredVariants : credVariant = [c \in Calls |-> v]
  /\ callerRequests = [c \in Calls |-> Requests]
  /\ invocationLimit = [c \in Calls |-> IF c = 1 THEN MaxInvocations ELSE 0]
  /\ pc = [c \in Calls |-> IF c = 1 THEN "start" ELSE "unused"]
  /\ fn = [c \in Calls |-> NoFunction]
  /\ requestOptions = [c \in Calls |-> NoRequest]
  /\ original = [c \in Calls |-> NoRequest]
  /\ credLookups = [c \in Calls |-> <<>>]
  /\ sent = [c \in Calls |-> <<>>]
  /\ invocations = [c \in Calls |-> 0]
  /\ error = [c \in Calls |-> NoError]

\* the configurations of concurrent calls: the kinds that write auth
\* material into the request, and the plain call
ConcurrentNodeParams ==
  {NodeParams("none", "", "")}
  \cup {NodeParams("genericCredentialType", k, "") : k \in CredentialKinds}

\* every call of a batch runs, each invoked once with its own request object
InitConcurrent ==
  /\ OptimizerIdle
  /\ LicenseIdle
  /\ UsersIdle
  /\ nodeParams \in [Calls -> ConcurrentNodeParams]
  /\ credVariant = [c \in Calls |-> 1]
  /\ callerRequests = [c \in Calls |-> {RequestFull}]
  /\ invocationLimit = [c \in Calls |-> 1]
  /\ pc = [c \in Calls |-> "start"]
  /\ fn = [c \in Calls |-> NoFunction]
  /\ requestOptions = [c \in Calls |-> NoRequest]
  /\ original = [c \in Calls |-> NoRequest]
  /\ credLookups = [c \in Calls |-> <<>>]
  /\ sent = [c \in Calls |-> <<>>]
  /\ invocations = [c \in Calls |-> 0]
  /\ error = [c \in Calls |-> NoError]

(***************************************************************************)
(* configureResponseOptimizer(ctx, itemIndex) and the function it returns. *)
(***************************************************************************)
\* the parameters configureResponseOptimizer reads before it returns
BuildReads(p) ==
  IF ~p.optimizeResponse THEN <<"optimizeResponse">>
  ELSE CASE p.responseType = "html" ->
              IF p.onlyContent
              THEN <<"optimizeResponse", "responseType", "cssSelector",
                     "onlyContent", "elementsToOmit">>
              ELSE <<"optimizeResponse", "responseType", "cssSelector",
                     "onlyContent">>
         [] p.responseType = "text" ->
              <<"optimizeResponse", "responseType", "maxLength">>
         [] OTHER -> <<"optimizeResponse", "responseType">>

\* the function configureResponseOptimizer returns
BuiltOptimizer(p) ==
  IF ~p.optimizeResponse THEN Optimizer("fallback", <<>>, FALSE, <<>>, 0)
  ELSE CASE p.responseType = "html" ->
              Optimizer("html", p.cssSelector, p.onlyContent,
                        IF p.onlyContent /\ p.elementsToOmit.t = "str"
                        THEN SplitAndTrim(p.elementsToOmit.v) ELSE <<>>,
                        0)
         [] p.responseType = "text" ->
              Optimizer("text", <<>>, FALSE, <<>>, p.maxLength)
         [] p.responseType = "json" -> Optimizer("json", <<>>, FALSE, <<>>, 0)
         [] OTHER -> Optimizer("fallback", <<>>, FALSE, <<>>, 0)

\* the counts of reads after the parameters of `names` were read once more
RECURSIVE CountReads(_, _, _)
CountReads(reads, names, i) ==
  IF i > Len(names) THEN reads
  ELSE CountReads([reads EXCEPT ![names[i]] = @ + 1], names, i + 1)

configureResponseOptimizer ==
  /\ optPc = "start"
  /\ optimizer' = BuiltOptimizer(optParams)
  /\ paramReads' = CountReads(paramReads, BuildReads(optParams), 1)
  /\ optPc' = "built"
  /\ UNCHANGED <<licenseVars, usersVars, dispatcherVars, optParams, optInput, optResponse, optResult,
                 optInvocations>>

\* the built function applied to a response; the json function reads the
\* node parameters p when it runs, the others use what they captured
RunOptimizer(o, p, response) ==
  CASE o.kind = "html" ->
         HtmlOptimizer(response, o.cssSelector, o.onlyContent,
                       o.elementsToOmit)
    [] o.kind = "text" -> TextOptimizer(response, o.maxLength)
    [] o.kind = "json" -> JsonOptimizer(response, p)
    [] OTHER -> FallbackSerializer(response)

(***************************************************************************)
(* The responses of the model.                                             *)
(***************************************************************************)
\* how many items an array response holds at most
MaxItems == 2

sA == <<"a">>
sB == <<"b">>
sAdotB == <<"a", ".", "b">>

Item1 == Obj(kA :> Num(1) @@ kB :> Num(2))
Item2 == Obj(kA :> Obj(kB :> Num(1) @@ kC :> Num(2)) @@ kB :> Num(3))
Item3 == Obj(kB :> Num(2))
Items == {Item1, Item2, Item3}

ArrayResponses ==
  UNION {{Arr(q) : q \in [1..n -> Items]} : n \in 0..MaxItems}

\* an object holding the items under a, and one holding them under a.b
Wrapped == Obj(kA :> Arr(<<Item1, Item2>>))
Nested == Obj(kA :> Obj(kB :> Arr(<<Item1, Item3>>) @@ kC :> Num(4)))

ObjectResponses == {Item1, Item2, Wrapped, Nested}

ScalarResponses == {Num(5), Null, Bool(TRUE), Str(<<"x">>)}

\* a response is passed as the value itself, as its JSON text, or as its
\* indented JSON text
Input(form, value) == [form |-> form, value |-> value]

JsonInputs ==
  {Input(f, v) : f \in {"value", "text", "pretty"},
                 v \in ArrayResponses \cup ObjectResponses \cup ScalarResponses}
  \cup {Input("raw", Str(<<"{", "\"", "a", "\"", ":">>))}

Chars(n) == SubSeq(<<"a", "b", "c", "d", "e", "f", "g", "h">>, 1, n)

\* the lengths of the text responses
TextLengths == {0, 2, 5, 8}
\* the largest maxLength parameter
MaxLength == 6

TextInputs ==
  {Input("raw", Str(Chars(n))) : n \in TextLengths}
  \cup {Input("value", Item1), Input("value", Num(5))}

tagLi == <<"l", "i">>

\* a list of two items, and a list of one item with white space and with
\* elements b and i in it
HtmlList ==
  Element(<<"u", "l">>, Element(tagLi, <<"O", "n", "e">>)
                        \o Element(tagLi, <<"T", "w", "o">>))
HtmlSpaced ==
  Element(<<"u", "l">>,
          Element(tagLi, <<" ", "T", "\n", " ", "w", " ", "\t">>
                         \o Element(<<"b">>, <<"x">>) \o <<"\r", "\n">>
                         \o Element(<<"i">>, <<"y", " ">>)
                         \o <<" ", "z", " ">>))
HtmlInputs ==
  {Input("raw", Str(HtmlList)), Input("raw", Str(HtmlSpaced)),
   Input("raw", Str(<<"n", "o", "n", "e">>)), Input("value", Item1)}

FallbackInputs ==
  {Input("raw", Str(Chars(2))), Input("value", Item1),
   Input("value", Arr(<<Item1, Item3>>)), Input("value", Num(5)),
   Input("value", Bool(FALSE)), Input("value", Undefined),
   Input("value", Null)}

InputsFor(kind) ==
  CASE kind = "html" -> HtmlInputs
    [] kind = "text" -> TextInputs
    [] kind = "json" -> JsonInputs
    [] OTHER -> FallbackInputs

\* the response object the caller holds and passes
Passed(input) ==
  CASE input.form = "text" -> Str(JSONtext(input.value))
    [] input.form = "pretty" -> Str(Stringify(input.value, 2, 0))
    [] OTHER -> input.value

Finished(input, result) ==
  /\ optInput' = input
  /\ optResponse' = result.response
  /\ optResult' = [threw |-> result.threw, output |-> result.output,
                   working |-> result.working]
  /\ paramReads' = CountReads(paramReads, result.reads, 1)

\* the caller invokes the built function with a response
InvokeOptimizer ==
  /\ optPc = "built"
  /\ optInvocations < MaxInvocations
  /\ \E input \in InputsFor(optimizer.kind) :
       Finished(input, RunOptimizer(optimizer, optParams, Passed(input)))
  /\ optInvocations' = optInvocations + 1
  /\ optPc' = "returned"
  /\ UNCHANGED <<licenseVars, usersVars, dispatcherVars, optParams, optimizer>>

\* the caller has taken the output; the function can be invoked again
OptimizerReturned ==
  /\ optPc = "returned"
  /\ optPc' = "built"
  /\ optInput' = NoInput
  /\ optResponse' = Undefined
  /\ optResult' = NoResult
  /\ UNCHANGED <<licenseVars, usersVars, dispatcherVars, optParams, paramReads, optimizer,
                 optInvocations>>

\* the fields parameter: a list of paths, or one comma-separated string
FieldsChoices ==
  {Arr(<<Str(sA)>>), Arr(<<Str(sAdotB)>>), Arr(<<Str(sB), Str(sAdotB)>>),
   Arr(<<Str(sA), Str(sAdotB)>>), Arr(<<Str(sAdotB), Str(sA)>>), Arr(<<>>),
   Str(<<"a", ".", "b", ",", " ", "c", " ">>), Str(<<>>)}

DataFieldChoices == {<<>>, sA, sAdotB}

ElementsToOmitChoices ==
  {Str(<<>>), Str(<<"b">>), Str(<<"b", ",", " ", "i">>)}

OptParamsChoices ==
  {OptParams(FALSE, "json", <<>>, FALSE, Str(<<>>), 0, <<>>, "all", Arr(<<>>))}
  \cup {OptParams(TRUE, "html", css, FALSE, Str(<<>>), 0, <<>>, "all",
                  Arr(<<>>)) : css \in {tagLi, <<"p">>}}
  \cup {OptParams(TRUE, "html", css, TRUE, omit, 0, <<>>, "all", Arr(<<>>)) :
          css \in {tagLi, <<"p">>}, omit \in ElementsToOmitChoices}
  \cup {OptParams(TRUE, "text", <<>>, FALSE, Str(<<>>), n, <<>>, "all",
                  Arr(<<>>)) : n \in 0..MaxLength}
  \cup {OptParams(TRUE, "json", <<>>, FALSE, Str(<<>>), 0, d, "all",
                  Arr(<<>>)) : d \in DataFieldChoices}
  \cup {OptParams(TRUE, "json", <<>>, FALSE, Str(<<>>), 0, d, i, f) :
          d \in DataFieldChoices, i \in {"selected", "except"},
          f \in FieldsChoices}

InitOptimizer ==
  /\ DispatcherIdle
  /\ LicenseIdle
  /\ UsersIdle
  /\ optParams \in OptParamsChoices
  /\ paramReads = [n \in ParamNames |-> 0]
  /\ optPc = "start"
  /\ optimizer = NoOptimizer
  /\ optInput = NoInput
  /\ optResponse = Undefined
  /\ optResult = NoResult
  /\ optInvocations = 0

NextOptimizer ==
  configureResponseOptimizer \/ InvokeOptimizer \/ OptimizerReturned

NextDispatcher ==
  \E c \in Calls :
    \/ configureHttpRequestFunction(c)
    \/ CredentialsReturn(c)
    \/ CredentialsFail(c)
    \/ Invoke(c)
    \/ CollaboratorReturn(c)
    \/ CollaboratorFail(c)

Spec == InitDispatcher /\ [][NextDispatcher]_vars

SpecConcurrent == InitConcurrent /\ [][NextDispatcher]_vars

SpecOptimizer == InitOptimizer /\ [][NextOptimizer]_vars

(***************************************************************************)
(* License.ts: the License object around one LicenseManager of the SDK.    *)
(* An async method runs without interruption up to its first await; what   *)
(* it awaits settles in a later step.                                      *)
(***************************************************************************)
MaxInitCalls == 3

\* the features a certificate may hold
Features == {"sharing", "other"}

\* what the SDK may hold after initialize, activate or renew settle
Certs ==
  {[valid |-> FALSE, features |-> {}]}
  \cup {[valid |-> TRUE, features |-> fs] : fs \in SUBSET Features}

\* new LicenseManager({...}): nothing is loaded before initialize
LicenseManager(id) == [id |-> id, valid |-> FALSE, features |-> {}]

\* a plausible slip: init without the test of this.manager
init_noGuard(k) ==
  /\ licensePc[k] = "idle"
  /\ initCalls < MaxInitCalls
  /\ initCalls' = initCalls + 1
  /\ \E constructed \in BOOLEAN :
       IF constructed
       THEN /\ manager' = LicenseManager(installs + 1)
            /\ installs' = installs + 1
            /\ licensePc' = [licensePc EXCEPT ![k] = "initialize"]
       ELSE UNCHANGED <<manager, installs, licensePc>>
  /\ UNCHANGED <<dispatcherVars, optimizerVars, usersVars, lastAnswer>>

\* init: returns when a manager is there; else constructs one, assigns it
\* and awaits its initialize; a constructor that throws leaves no manager
init(k) ==
  /\ licensePc[k] = "idle"
  /\ initCalls < MaxInitCalls
  /\ initCalls' = initCalls + 1
  /\ IF manager # NoManager
     THEN UNCHANGED <<manager, installs, licensePc>>
     ELSE \E constructed \in BOOLEAN :
            IF constructed
            THEN /\ manager' = LicenseManager(installs + 1)
                 /\ installs' = installs + 1
                 /\ licensePc' = [licensePc EXCEPT ![k] = "initialize"]
            ELSE UNCHANGED <<manager, installs, licensePc>>
  /\ UNCHANGED <<dispatcherVars, optimizerVars, usersVars, lastAnswer>>

\* activate: returns without a manager and with a valid one; else awaits
\* the manager's activate
activate(k) ==
  /\ licensePc[k] = "idle"
  /\ IF manager = NoManager \/ manager.valid
     THEN UNCHANGED licensePc
     ELSE licensePc' = [licensePc EXCEPT ![k] = "activate"]
  /\ UNCHANGED <<dispatcherVars, optimizerVars, usersVars, manager, installs,
                 initCalls, lastAnswer>>

\* renew: returns without a manager; else awaits the manager's renew
renew(k) ==
  /\ licensePc[k] = "idle"
  /\ IF manager = NoManager
     THEN UNCHANGED licensePc
     ELSE licensePc' = [licensePc EXCEPT ![k] = "renew"]
  /\ UNCHANGED <<dispatcherVars, optimizerVars, usersVars, manager, installs,
                 initCalls, lastAnswer>>

\* the awaited call of the manager resolves or rejects (a rejection is
\* caught and logged); the manager holds what the SDK made of it
ManagerSettles(k) ==
  /\ licensePc[k] # "idle"
  /\ \E cert \in Certs :
       manager' = [manager EXCEPT !.valid = cert.valid,
                                  !.features = cert.features]
  /\ licensePc' = [licensePc EXCEPT ![k] = "idle"]
  /\ UNCHANGED <<dispatcherVars, optimizerVars, usersVars, installs,
                 initCalls, lastAnswer>>

\* isFeatureEnabled: false without a manager, else the manager's answer
isFeatureEnabled(feature) ==
  /\ lastAnswer' =
       [feature |-> feature,
        enabled |-> IF manager = NoManager THEN FALSE
                    ELSE feature \in manager.features]
  /\ UNCHANGED <<dispatcherVars, optimizerVars, usersVars, manager, installs,
                 initCalls, licensePc>>

InitLicense ==
  /\ DispatcherIdle
  /\ OptimizerIdle
  /\ UsersIdle
  /\ manager = NoManager
  /\ installs = 0
  /\ initCalls = 0
  /\ licensePc = [k \in LicenseCalls |-> "idle"]
  /\ lastAnswer = NoAnswer

NextLicense ==
  \/ \E k \in LicenseCalls :
       init(k) \/ activate(k) \/ renew(k) \/ ManagerSettles(k)
  \/ \E feature \in Features : isFeatureEnabled(feature)

SpecLicense == InitLicense /\ [][NextLicense]_vars

(***************************************************************************)
(* modules/users.ts: the users store.  Each action awaits one call of the  *)
(* API before it reads or writes the state, and commits without another    *)
(* await: an action is one step, taken when its API call settles.  What    *)
(* the API answers is not decided by the store: any user, any list, or a   *)
(* rejection that ends the action before its commit.                       *)
(***************************************************************************)
UserIds == {"u1", "u2", "u3"}

Emails == {"", "a@b.c"}

\* user: IUser
IUser == [id : UserIds, email : Emails]

\* what the API answers where a user is expected: a user or null
NoUserAnswer == [id |-> NoUser, email |-> ""]
UserAnswers == IUser \cup {NoUserAnswer}

\* what the API answers where users are expected
UserLists == {<<>>} \cup {<<u>> : u \in IUser} \cup {<<u, v>> : u, v \in IUser}

\* state.users[id] of an id the map does not hold
MissingUser == [id |-> "undefined", email |-> ""]

\* mutation addUsers: Vue.set(state.users, user.id, user) for each user
RECURSIVE addUsers(_, _)
addUsers(st, users) ==
  IF Len(users) = 0 THEN st
  ELSE addUsers(
         [st EXCEPT !.users =
            [id \in DOMAIN st.users \cup {users[1].id} |->
               IF id = users[1].id THEN users[1] ELSE st.users[id]]],
         Tail(users))

setCurrentUserId(st, userId) == [st EXCEPT !.currentUserId = userId]

clearCurrentUserId(st) == [st EXCEPT !.currentUserId = NoUser]

\* mutation deleteUser: Vue.delete(state.users, userId)
mutations_deleteUser(st, userId) ==
  [st EXCEPT !.users = [id \in DOMAIN st.users \ {userId} |-> st.users[id]]]

\* getter currentUser
currentUser(st) ==
  IF st.currentUserId # NoUser
  THEN IF st.currentUserId \in DOMAIN st.users
       THEN st.users[st.currentUserId]
       ELSE MissingUser
  ELSE NoUserAnswer

\* if (user) { commit('addUsers', [user]); commit('setCurrentUserId', user.id) }
CommitUser(st, user) ==
  IF user # NoUserAnswer
  THEN setCurrentUserId(addUsers(st, <<user>>), user.id)
  ELSE st

loginWithCookie ==
  /\ \/ \E user \in UserAnswers : state' = CommitUser(state, user)
     \/ UNCHANGED state
  /\ UNCHANGED <<dispatcherVars, optimizerVars, licenseVars>>

getCurrentUser ==
  /\ \/ \E user \in UserAnswers : state' = CommitUser(state, user)
     \/ UNCHANGED state
  /\ UNCHANGED <<dispatcherVars, optimizerVars, licenseVars>>

loginWithCreds ==
  /\ \/ \E user \in UserAnswers : state' = CommitUser(state, user)
     \/ UNCHANGED state
  /\ UNCHANGED <<dispatcherVars, optimizerVars, licenseVars>>

logout ==
  /\ \/ state' = clearCurrentUserId(state)
     \/ UNCHANGED state
  /\ UNCHANGED <<dispatcherVars, optimizerVars, licenseVars>>

createOwner ==
  /\ \/ \E user \in UserAnswers : state' = CommitUser(state, user)
     \/ UNCHANGED state
  /\ UNCHANGED <<dispatcherVars, optimizerVars, licenseVars>>

signup ==
  /\ \/ \E user \in UserAnswers : state' = CommitUser(state, user)
     \/ UNCHANGED state
  /\ UNCHANGED <<dispatcherVars, optimizerVars, licenseVars>>

updateUser ==
  /\ \/ \E user \in IUser : state' = addUsers(state, <<user>>)
     \/ UNCHANGED state
  /\ UNCHANGED <<dispatcherVars, optimizerVars, licenseVars>>

\* deleteUser with params.id = id
deleteUser(id) ==
  /\ \/ state' = mutations_deleteUser(state, id)
     \/ UNCHANGED state
  /\ UNCHANGED <<dispatcherVars, optimizerVars, licenseVars>>

fetchUsers ==
  /\ \/ \E users \in UserLists : state' = addUsers(state, users)
     \/ UNCHANGED state
  /\ UNCHANGED <<dispatcherVars, optimizerVars, licenseVars>>

inviteUsers ==
  /\ \/ \E users \in UserLists : state' = addUsers(state, users)
     \/ UNCHANGED state
  /\ UNCHANGED <<dispatcherVars, optimizerVars, licenseVars>>

InitUsers ==
  /\ DispatcherIdle
  /\ OptimizerIdle
  /\ LicenseIdle
  /\ state = [currentUserId |-> NoUser, users |-> <<>>]

NextUsers ==
  \/ loginWithCookie
  \/ getCurrentUser
  \/ loginWithCreds
  \/ logout
  \/ createOwner
  \/ signup
  \/ updateUser
  \/ \E id \in UserIds : deleteUser(id)
  \/ fetchUsers
  \/ inviteUsers

SpecUsers == InitUsers /\ [][NextUsers]_vars

(***************************************************************************)
(* Properties of the dispatcher.                                           *)
(***************************************************************************)
\* the running or finished invocation of call c reached its collaborator
Dispatched(c) ==
  \/ pc[c] \in {"awaitResponse", "returned"}
  \/ pc[c] = "threw" /\ error[c] = CollaboratorError

IsGeneric(c, kind) ==
  /\ nodeParams[c].auth = "genericCredentialType"
  /\ nodeParams[c].genericAuthType = kind

\* the keys of an object, none for a field that is absent
KeysOf(x) == IF x.t = "obj" THEN DOMAIN x.v ELSE {}

\* C1: with httpHeaderAuth, credential {name, value} and a request whose
\* headers field is an object, the request handed to the transport has
\* headers[name] = value, every other header is as it was, no header is
\* added besides name, and qs, body and auth are as they were.
C1_HeaderAuthFrame ==
  \A c \in Calls :
    (IsGeneric(c, "httpHeaderAuth") /\ Dispatched(c)
       /\ original[c].headers.t = "obj")
    => LET cred == StoredCredential("httpHeaderAuth", c, credVariant[c])
           req == sent[c][1].request
       IN /\ Len(sent[c]) = 1
          /\ sent[c][1].collaborator = "httpRequest"
          /\ req = requestOptions[c]
          /\ req.headers.t = "obj"
          /\ Prop(req.headers, cred.name) = cred.value
          /\ KeysOf(req.headers) = KeysOf(original[c].headers) \cup {cred.name}
          /\ \A k \in KeysOf(original[c].headers) \ {cred.name} :
               req.headers.v[k] = original[c].headers.v[k]
          /\ req.qs = original[c].qs
          /\ req.body = original[c].body
          /\ req.auth = original[c].auth

\* C1 witness: a header-auth request was sent whose headers already held
\* the credential's key and another key
C1_Witness ==
  /\ IsGeneric(1, "httpHeaderAuth")
  /\ pc[1] = "returned"
  /\ original[1] = RequestFull
  /\ requestOptions[1].headers =
       Obj(kX :> Str(<<"h", "1">>) @@ kB :> sKeep)

\* the credential JSON of a variant that is well formed, as a value
CustomAuthValue(c, variant) ==
  CASE variant = 1 -> CustomAuthFull(c)
    [] variant = 2 -> CustomAuthHeadersOnly(c)
    [] OTHER -> EmptyObject

\* a section of the request after a shallow merge: the union of the keys,
\* the injected value under every injected key, the original one elsewhere
IsShallowUnion(result, orig, inj) ==
  /\ result.t = "obj"
  /\ KeysOf(result) = KeysOf(orig) \cup KeysOf(inj)
  /\ \A k \in KeysOf(inj) : result.v[k] = inj.v[k]
  /\ \A k \in KeysOf(orig) \ KeysOf(inj) : result.v[k] = orig.v[k]

SectionMerged(result, orig, customAuth, section) ==
  IF section \in KeysOf(customAuth)
  THEN IsShallowUnion(result, orig, customAuth.v[section])
  ELSE result = orig

\* C2: with httpCustomAuth and well-formed credential JSON, the request is
\* sent with headers, qs and body each the shallow union of the original and
\* the injected keys, the injected value winning on a conflict (a nested
\* object is replaced whole); a section the JSON lacks is left untouched,
\* and so is auth.
C2_CustomAuthShallowMerge ==
  \A c \in Calls :
    (IsGeneric(c, "httpCustomAuth") /\ credVariant[c] \in 1..3
       /\ pc[c] \in {"awaitResponse", "returned", "threw"})
    => LET inj == CustomAuthValue(c, credVariant[c])
           req == sent[c][1].request
       IN /\ Dispatched(c)
          /\ Len(sent[c]) = 1
          /\ req = requestOptions[c]
          /\ SectionMerged(req.headers, original[c].headers, inj, kHeaders)
          /\ SectionMerged(req.qs, original[c].qs, inj, kQs)
          /\ SectionMerged(req.body, original[c].body, inj, kBody)
          /\ req.auth = original[c].auth

\* C2 witness: a custom-auth request was sent in which the injected nested
\* body value replaced the original one and the other keys were kept
C2_Witness ==
  /\ IsGeneric(1, "httpCustomAuth")
  /\ credVariant[1] = 1
  /\ pc[1] = "returned"
  /\ original[1] = RequestFull
  /\ requestOptions[1].body = Obj(kX :> Obj(kC :> Num(1)) @@ kB :> sKeep)
  /\ requestOptions[1].headers =
       Obj(kX :> Str(<<"1">>) @@ kA :> Str(<<"1">>) @@ kB :> sKeep)

\* C3: with authMode none no credential lookup is ever made, and the
\* returned function hands the request object to the plain transport with
\* auth and every other field as the caller passed them.
C3_NoneIsPlain ==
  \A c \in Calls :
    nodeParams[c].auth = "none"
    => /\ credLookups[c] = <<>>
       /\ pc[c] # "awaitCredentials"
       /\ Dispatched(c)
          => /\ Len(sent[c]) = 1
             /\ sent[c][1].collaborator = "httpRequest"
             /\ sent[c][1].request = original[c]
             /\ requestOptions[c] = original[c]

\* C3 witness: with authMode none a request that carries an auth record was
\* sent
C3_Witness ==
  /\ nodeParams[1].auth = "none"
  /\ pc[1] = "returned"
  /\ original[1] = RequestFull
  /\ sent[1][1].request.auth = Obj(kUsername :> sOld @@ kPassword :> sOld)

\* the collaborator the selected strategy dispatches to
CollaboratorOf(p) ==
  CASE p.auth = "genericCredentialType" /\ p.genericAuthType = "oAuth1Api" ->
         "requestOAuth1"
    [] p.auth = "genericCredentialType" /\ p.genericAuthType = "oAuth2Api" ->
         "requestOAuth2"
    [] p.auth = "predefinedCredentialType" -> "requestWithAuthentication"
    [] OTHER -> "httpRequest"

\* C4: for every authMode and generic kind, an invocation that reaches its
\* collaborator makes exactly one collaborator call, to the collaborator of
\* the selected strategy; an invocation that throws before it dispatches
\* makes none; after a collaborator failure no further call is made.
C4_ExactlyOneDispatch ==
  \A c \in Calls :
    /\ Dispatched(c)
       => /\ Len(sent[c]) = 1
          /\ sent[c][1].collaborator = CollaboratorOf(nodeParams[c])
    /\ (pc[c] = "threw" /\ error[c] # CollaboratorError)
       => Len(sent[c]) = 0
    /\ pc[c] \in {"start", "awaitCredentials", "resolved", "resolveFailed",
                  "unused"}
       => Len(sent[c]) = 0

\* C4 witness: the collaborator of an invocation failed and the invocation
\* ended with the one call it had made
C4_Witness ==
  /\ pc[1] = "threw"
  /\ error[1] = CollaboratorError
  /\ Len(sent[1]) = 1
  /\ invocations[1] = MaxInvocations

\* the characters of the JSON text of a request object
RequestChars(r) ==
  LET text == JSONtext(Arr(<<r.headers, r.qs, r.body, r.auth>>))
  IN {text[i] : i \in 1..Len(text)}

\* the function call c gets when it runs alone: built around the
\* credentials stored for its own item
AloneFunction(c) ==
  LET kind == nodeParams[c].genericAuthType IN
  IF nodeParams[c].auth = "genericCredentialType" /\ kind \in CredentialKinds
  THEN Function(StrategyOf(kind),
                StoredCredential(IF kind = "httpDigestAuth"
                                 THEN "httpBasicAuth" ELSE kind,
                                 c, credVariant[c]),
                IF kind = "httpDigestAuth" THEN Bool(FALSE) ELSE Undefined,
                "", getOAuth2AdditionalParameters(""), c)
  ELSE Function("plain", NoCredential, Undefined, "",
                getOAuth2AdditionalParameters(""), c)

\* C5: when calls run concurrently, each with its own function and its own
\* request object, then under every interleaving the request a call
\* dispatches is the request it dispatches when run alone, and it holds no
\* auth material of another call (the stored credentials of an item carry
\* the item's number).
C5_ConcurrentCallsIsolated ==
  \A c \in Calls :
    Dispatched(c)
    => /\ Len(sent[c]) = 1
       /\ sent[c][1].request = RequestFunction(AloneFunction(c),
                                               original[c]).request
       /\ \A d \in Calls \ {c} :
            ToString(d) \notin RequestChars(sent[c][1].request)

\* C5 witness: two calls are in flight at the same time, each with its own
\* credential in its request
C5_Witness ==
  /\ IsGeneric(1, "httpHeaderAuth")
  /\ IsGeneric(2, "httpQueryAuth")
  /\ pc[1] = "awaitResponse"
  /\ pc[2] = "awaitResponse"
  /\ Prop(sent[1][1].request.headers, kX) = Str(<<"h", "1">>)
  /\ Prop(sent[2][1].request.qs, kX) = Str(<<"q", "2">>)

(***************************************************************************)
(* Properties of the response optimizer.                                   *)
(***************************************************************************)
\* the options configureResponseOptimizer reads before it returns a function
BuildTimeOptions ==
  {"optimizeResponse", "responseType", "cssSelector", "onlyContent",
   "elementsToOmit", "maxLength"}

\* a step in which the built function runs
InvokeStep == optPc = "built" /\ optPc' = "returned"

\* the json function ran to its end on the response of optInput
JsonReturned ==
  /\ optPc = "returned"
  /\ optimizer.kind = "json"
  /\ optResult.threw = NoError

\* what the json function read in a run that passed the type check
JsonReadsOf(p) ==
  [n \in ParamNames |->
     IF n \in {"dataField", "fieldsToInclude"} \/
        (n = "fields" /\ p.fieldsToInclude # "all")
     THEN 1 ELSE 0]

\* C6 as stated: every shaping option is read only once, when the function
\* is built; invoking the built function performs no configuration read.
C6_NoReadOnInvoke == [][InvokeStep => paramReads' = paramReads]_vars

\* C6, amended: responseType, cssSelector, onlyContent, elementsToOmit and
\* maxLength are read at most once, when the function is built, and no
\* invocation reads them again; the html, text and unoptimized functions
\* read no configuration when invoked; the json function reads dataField and
\* fieldsToInclude (and fields, unless fieldsToInclude is all) on every
\* invocation that passes the type check; the configuration is never
\* written.
C6_BuildOptionsReadOnce ==
  /\ [](\A n \in BuildTimeOptions : paramReads[n] <= 1)
  /\ [][/\ optParams' = optParams
        /\ InvokeStep =>
             /\ \A n \in BuildTimeOptions : paramReads'[n] = paramReads[n]
             /\ optimizer.kind # "json" => paramReads' = paramReads
             /\ optimizer.kind = "json" /\ optResult'.threw = NoError =>
                  \A n \in ParamNames :
                    paramReads'[n] = paramReads[n] + JsonReadsOf(optParams)[n]
             /\ optimizer.kind = "json" /\ optResult'.threw # NoError =>
                  paramReads' = paramReads]_vars

\* the json function has run twice and read dataField each time, while the
\* response type was read once, at build
C6_Witness ==
  /\ optimizer.kind = "json"
  /\ optInvocations = 2
  /\ paramReads["dataField"] = 2
  /\ paramReads["fieldsToInclude"] = 2
  /\ paramReads["responseType"] = 1

\* the value of the property `name` of x
PropertyNamed(x, name) ==
  IF x.t = "obj" /\ name \in DOMAIN x.v THEN x.v[name] ELSE Undefined

\* the value at the dotted path `path` of x: one property after the other
RECURSIVE AtPath(_, _)
AtPath(x, keys) ==
  IF Len(keys) = 0 THEN x
  ELSE AtPath(PropertyNamed(x, Head(keys)), Tail(keys))

AsWorkingArray(x) == IF x.t = "arr" THEN x.v ELSE <<x>>

DataFieldSet == JsonReturned /\ Len(optParams.dataField) > 0

\* C7 as stated: a set dataField is resolved as a dotted path; a non-array
\* response gives the value at the path (wrapped in a one-element array
\* unless it is an array), an array response is mapped element by element.
C7_DataFieldDottedPath ==
  DataFieldSet =>
    IF optInput.value.t # "arr"
    THEN optResult.working =
           AsWorkingArray(AtPath(optInput.value,
                                 Split(optParams.dataField, ".")))
    ELSE /\ Len(optResult.working) = Len(optInput.value.v)
         /\ \A i \in 1..Len(optInput.value.v) :
              optResult.working[i] =
                AtPath(optInput.value.v[i], Split(optParams.dataField, "."))

\* C7, amended: a set dataField names one property of the response, it is
\* not followed as a dotted path; a non-array response gives the value of
\* that property (wrapped in a one-element array unless it is an array, and
\* undefined when there is no such property), an array response is mapped
\* one-to-one, in order, to each element's property of that name.
C7_DataFieldSingleProperty ==
  DataFieldSet =>
    IF optInput.value.t # "arr"
    THEN optResult.working =
           AsWorkingArray(PropertyNamed(optInput.value, optParams.dataField))
    ELSE /\ Len(optResult.working) = Len(optInput.value.v)
         /\ \A i \in 1..Len(optInput.value.v) :
              optResult.working[i] =
                PropertyNamed(optInput.value.v[i], optParams.dataField)

\* the items held under the property a became the working array
C7_Witness ==
  /\ DataFieldSet
  /\ optParams.dataField = sA
  /\ optInput.value = Wrapped
  /\ optResult.working = <<Item1, Item2>>

\* the array the returned JSON string parses to
OutputItems == JSONparse(optResult.output.v).val.v

OutputIsArray ==
  /\ optResult.output.t = "str"
  /\ JSONparse(optResult.output.v).ok
  /\ JSONparse(optResult.output.v).val.t = "arr"

\* the paths of x that end at a value that is no object, or at an empty one
RECURSIVE LeafPaths(_)
LeafPaths(x) ==
  IF x.t = "obj" /\ DOMAIN x.v # {}
  THEN UNION {{<<k>> \o q : q \in LeafPaths(x.v[k])} : k \in DOMAIN x.v}
  ELSE {<<>>}

IsPrefix(q, r) == Len(q) <= Len(r) /\ SubSeq(r, 1, Len(q)) = q

RequestedPaths ==
  {Split(f, ".") : f \in {FieldList(optParams.fields)[i] :
                            i \in 1..Len(FieldList(optParams.fields))}}

\* a value as JSON text carries it: undefined has no text
Carried(x) == IF x.t = "undefined" THEN Undefined ELSE JSONparse(JSONtext(x)).val

\* C8 as stated: with fieldsToInclude = selected the output has one item per
\* working-array item, in order; each is a new object that contains only
\* the requested dotted-path fields, carrying the source item's value at
\* each path; an absent path is no error.
C8_SelectedCarriesValues ==
  JsonReturned /\ optParams.fieldsToInclude = "selected" =>
    /\ OutputIsArray
    /\ Len(OutputItems) = Len(optResult.working)
    /\ \A i \in 1..Len(optResult.working) :
         /\ OutputItems[i].t = "obj"
         /\ \A r \in RequestedPaths :
              AtPath(OutputItems[i], r) = Carried(AtPath(optResult.working[i], r))
         /\ \A q \in LeafPaths(OutputItems[i]) :
              q = <<>> \/ \E r \in RequestedPaths : IsPrefix(r, q) \/ IsPrefix(q, r)

\* C8 where no requested path runs through another requested path
C8_SelectedPrefixFree ==
  (\A q, r \in RequestedPaths : IsPrefix(q, r) => q = r) =>
    C8_SelectedCarriesValues

\* C9: with fieldsToInclude = except the output has one item per
\* working-array item, in order; each is the source item with every
\* requested dotted-path field removed and every other field kept; the
\* removal is done in place, so the response object the caller holds shows
\* the same fields removed afterwards.
C9_ExceptRemovesInPlace ==
  JsonReturned /\ optParams.fieldsToInclude = "except" =>
    /\ OutputIsArray
    /\ Len(OutputItems) = Len(optResult.working)
    /\ \A i \in 1..Len(optResult.working) :
         IF optResult.working[i].t # "obj"
         THEN OutputItems[i] =
                IF optResult.working[i].t = "undefined" THEN Null
                ELSE optResult.working[i]
         ELSE /\ \A r \in RequestedPaths :
                   AtPath(OutputItems[i], r) = Undefined
              /\ \A q \in LeafPaths(optResult.working[i]) :
                   (\A r \in RequestedPaths : ~IsPrefix(r, q)) =>
                     AtPath(OutputItems[i], q) = AtPath(optResult.working[i], q)
              /\ \A q \in LeafPaths(OutputItems[i]) :
                   \/ q \in LeafPaths(optResult.working[i])
                   \/ /\ AtPath(optResult.working[i], q).t = "obj"
                      /\ \E r \in RequestedPaths : IsPrefix(q, r)
    /\ optInput.form = "value" =>
         /\ optResponse.t = optInput.value.t
         /\ Len(WorkingArray(optResponse, optParams.dataField))
              = Len(OutputItems)
         /\ \A i \in 1..Len(OutputItems) :
              optResult.working[i].t = "obj" =>
                WorkingArray(optResponse, optParams.dataField)[i]
                  = OutputItems[i]
    /\ optInput.form # "value" => optResponse = Passed(optInput)

\* b and a.b were removed from an item of the caller's array, and the
\* caller's array shows it
C9_Witness ==
  /\ JsonReturned
  /\ optParams.fieldsToInclude = "except"
  /\ optParams.fields = Arr(<<Str(sB), Str(sAdotB)>>)
  /\ optParams.dataField = <<>>
  /\ optInput = Input("value", Arr(<<Item2, Item1>>))
  /\ optResponse = Arr(<<Obj(kA :> Obj(kC :> Num(2))), Obj(kA :> Num(1))>>)
  /\ OutputItems = optResponse.v

\* C10: for a response that is an array of objects, passed parsed or as its
\* JSON text, the json function with fieldsToInclude = all and no dataField
\* returns a JSON string that parses to an array identical to the input.
C10_AllRoundTrip ==
  /\ optPc = "returned"
  /\ optimizer.kind = "json"
  /\ optParams.fieldsToInclude = "all"
  /\ optParams.dataField = <<>>
  /\ optInput.value.t = "arr"
  => /\ optResult.threw = NoError
     /\ optResult.output.t = "str"
     /\ JSONparse(optResult.output.v) = [ok |-> TRUE, val |-> optInput.value]

\* a two-item array passed as JSON text came back as text of the same array
C10_Witness ==
  /\ JsonReturned
  /\ optParams.fieldsToInclude = "all"
  /\ optParams.dataField = <<>>
  /\ optInput = Input("text", Arr(<<Item1, Item2>>))
  /\ JSONparse(optResult.output.v).val = Arr(<<Item1, Item2>>)

\* the text function ran on a string response
TextReturned ==
  /\ optPc = "returned"
  /\ optimizer.kind = "text"
  /\ optInput.value.t = "str"

\* C11: for a string response r the text function returns the first
\* maxLength characters of r when maxLength > 0 and r is longer, and r
\* itself otherwise (maxLength = 0 included); so with maxLength > 0 the
\* result is a prefix of r of at most maxLength characters, and nothing is
\* appended to it.
C11_TextTruncation ==
  TextReturned =>
    /\ optResult.threw = NoError
    /\ optResult.output.t = "str"
    /\ IF optParams.maxLength > 0 /\ Len(optInput.value.v) > optParams.maxLength
       THEN /\ Len(optResult.output.v) = optParams.maxLength
            /\ \A i \in 1..optParams.maxLength :
                 optResult.output.v[i] = optInput.value.v[i]
       ELSE optResult.output = optInput.value
    /\ optParams.maxLength > 0 =>
         /\ Len(optResult.output.v) <= optParams.maxLength
         /\ IsPrefix(optResult.output.v, optInput.value.v)

\* "abcdefgh" with maxLength = 5 came back as "abcde"
C11_Witness ==
  /\ TextReturned
  /\ optParams.maxLength = 5
  /\ optInput.value = Str(<<"a", "b", "c", "d", "e", "f", "g", "h">>)
  /\ optResult.output = Str(<<"a", "b", "c", "d", "e">>)

\* the html function ran on a string response
HtmlReturned ==
  /\ optPc = "returned"
  /\ optimizer.kind = "html"
  /\ optInput.value.t = "str"

\* the positions of the document where an element named `name` opens
Starts(doc, name) ==
  {i \in 1..Len(doc) : Lookahead(doc, i, OpenTag(name))}

\* the inner HTML of the element that opens at position i
InnerAt(doc, name, i) ==
  SubSeq(doc, i + Len(OpenTag(name)), Find(doc, CloseTag(name), i) - 1)

\* C12: the html function returns a JSON array with exactly one string per
\* element matched by cssSelector, in document order; when no element
\* matches, the result is the empty array and nothing is thrown.
C12_OneStringPerElement ==
  HtmlReturned =>
    /\ optResult.threw = NoError
    /\ OutputIsArray
    /\ Len(OutputItems)
         = Cardinality(Starts(optInput.value.v, optParams.cssSelector))
    /\ \A i \in Starts(optInput.value.v, optParams.cssSelector) :
         OutputItems[Cardinality(
             {j \in Starts(optInput.value.v, optParams.cssSelector) : j <= i})]
           = Str(HtmlValue(
                   InnerAt(optInput.value.v, optParams.cssSelector, i),
                   optimizer.onlyContent, optimizer.elementsToOmit))

\* the two li elements of the list came back as "One" and "Two"
C12_Witness ==
  /\ HtmlReturned
  /\ optParams.cssSelector = tagLi
  /\ ~optParams.onlyContent
  /\ optInput.value = Str(HtmlList)
  /\ OutputItems = <<Str(<<"O", "n", "e">>), Str(<<"T", "w", "o">>)>>

\* no element matched, and the empty array came back
C12_WitnessNoMatch ==
  /\ HtmlReturned
  /\ optParams.cssSelector = <<"p">>
  /\ OutputItems = <<>>

\* the html or the text function ran on a response that is no string
StringRequired ==
  /\ optPc = "returned"
  /\ optimizer.kind \in {"html", "text"}
  /\ optInput.value.t # "str"

\* what typeof gives for a value
TypeName(x) ==
  CASE x.t \in {"obj", "arr", "null"} -> "object"
    [] x.t = "num" -> "number"
    [] x.t = "bool" -> "boolean"
    [] x.t = "str" -> "string"
    [] OTHER -> "undefined"

\* C13 as stated: with responseType html or text a response that is no
\* string makes the built function fail with TypeError("response must be a
\* string") and produce no output.
C13_TypeErrorThrown ==
  StringRequired =>
    /\ optResult.threw.name = "TypeError"
    /\ optResult.threw.message = "response must be a string"
    /\ optResult.output = Undefined

\* C13, amended: with responseType html or text a response that is no
\* string makes the built function fail with a NodeOperationError whose
\* message is "The response type must be a string. Received: " followed by
\* the typeof of the response, carrying the item index; it produces no
\* output and leaves the response as it was.
C13_StringRequired ==
  StringRequired =>
    /\ optResult.threw.name = "NodeOperationError"
    /\ optResult.threw.message =
         (CASE TypeName(optInput.value) = "object" ->
                 "The response type must be a string. Received: object"
            [] TypeName(optInput.value) = "number" ->
                 "The response type must be a string. Received: number"
            [] TypeName(optInput.value) = "boolean" ->
                 "The response type must be a string. Received: boolean"
            [] OTHER ->
                 "The response type must be a string. Received: undefined")
    /\ optResult.threw.itemIndex = OptimizerItemIndex
    /\ optResult.output = Undefined
    /\ optResponse = optInput.value

\* the text function was given the number 5 and threw
C13_Witness ==
  /\ StringRequired
  /\ optimizer.kind = "text"
  /\ optInput.value = Num(5)
  /\ optResult.threw.message =
       "The response type must be a string. Received: number"

\* the json function ran
JsonRan == optPc = "returned" /\ optimizer.kind = "json"

\* the response was passed as text that is no JSON
Malformed ==
  /\ Passed(optInput).t = "str"
  /\ ~JSONparse(Passed(optInput).v).ok

\* the value the type check of the json function is made on
CheckedValue ==
  IF Passed(optInput).t = "str" THEN JSONparse(Passed(optInput).v).val
  ELSE Passed(optInput)

\* C14 as stated: the json function parses a string response; a value that
\* is no object and no array makes it fail with "response must be an object
\* or array of objects" and return nothing; malformed JSON text fails with
\* a parse failure instead.
C14_ObjectRequiredAsStated ==
  JsonRan =>
    /\ Malformed => optResult.threw.name = "SyntaxError"
    /\ ~Malformed /\ CheckedValue.t \notin {"obj", "arr"} =>
         /\ optResult.threw.message
              = "response must be an object or array of objects"
         /\ optResult.output = Undefined

\* C14, amended: the json function parses a string response; a value that
\* is no object and no array (a number, boolean, string or null) makes it
\* fail with a NodeOperationError whose message is "The response type must
\* be an object or an array of objects" and return nothing; malformed JSON
\* text fails with the parser's SyntaxError instead; an object or an array
\* passes.
C14_ObjectRequired ==
  JsonRan =>
    /\ Malformed =>
         /\ optResult.threw.name = "SyntaxError"
         /\ optResult.output = Undefined
    /\ ~Malformed /\ CheckedValue.t \notin {"obj", "arr"} =>
         /\ optResult.threw.name = "NodeOperationError"
         /\ optResult.threw.message
              = "The response type must be an object or an array of objects"
         /\ optResult.output = Undefined
    /\ ~Malformed /\ CheckedValue.t \in {"obj", "arr"} =>
         optResult.threw = NoError

\* the text "null" was parsed and rejected
C14_Witness ==
  /\ JsonRan
  /\ optInput = Input("text", Null)
  /\ optResult.threw.name = "NodeOperationError"
  /\ optResult.output = Undefined

\* the function built for httpCustomAuth threw on a credential whose json
\* text is not empty and is no JSON
MalformedCustomAuth(c) ==
  /\ IsGeneric(c, "httpCustomAuth")
  /\ pc[c] = "threw"
  /\ Len(fn[c].credential.json.v) > 0
  /\ ~JSONparse(fn[c].credential.json.v).ok

\* C15 as stated: for httpCustomAuth a malformed credential JSON makes the
\* call fail with a parse error whose message is "Invalid Custom Auth JSON"
\* and which carries the item index of the call.
C15_ParseErrorCarriesItemIndex ==
  \A c \in Calls :
    MalformedCustomAuth(c)
    => /\ error[c].message = "Invalid Custom Auth JSON"
       /\ error[c].itemIndex = Num(ItemIndex(c))

\* C15 without the item index: the message alone
C15_ParseErrorMessage ==
  \A c \in Calls :
    MalformedCustomAuth(c)
    => /\ error[c].message = "Invalid Custom Auth JSON"
       /\ Len(sent[c]) = 0

\* the function built with optimization disabled ran
FallbackReturned == optPc = "returned" /\ ~optParams.optimizeResponse

\* C16: with optimization disabled the built function is the fallback
\* serializer: a string is returned unchanged, an object or array as JSON
\* indented by two spaces, any other value coerced to a string; applying it
\* to its own output returns that output unchanged.
C16_FallbackIdempotent ==
  /\ optPc \in {"built", "returned"} /\ ~optParams.optimizeResponse =>
       optimizer.kind = "fallback"
  /\ FallbackReturned =>
       /\ optResult.threw = NoError
       /\ optResult.output.t = "str"
       /\ optInput.value.t = "str" => optResult.output = optInput.value
       /\ optInput.value.t \in {"obj", "arr"} =>
            /\ optResult.output.v = Stringify(optInput.value, 2, 0)
            /\ JSONparse(optResult.output.v).val = optInput.value
       /\ optInput.value = Num(5) => optResult.output = Str(<<"5">>)
       /\ optInput.value = Bool(FALSE) =>
            optResult.output = Str(<<"f", "a", "l", "s", "e">>)
       /\ optInput.value = Undefined =>
            optResult.output
              = Str(<<"u", "n", "d", "e", "f", "i", "n", "e", "d">>)
       /\ optInput.value = Null =>
            optResult.output = Str(<<"n", "u", "l", "l">>)
       /\ FallbackSerializer(optResult.output).output = optResult.output
       /\ FallbackSerializer(optResult.output).threw = NoError

\* an object came back as its indented JSON text, which the function
\* returns as it is
C16_Witness ==
  /\ FallbackReturned
  /\ optInput.value = Item1
  /\ optResult.output = Str(Stringify(Item1, 2, 0))
  /\ FallbackSerializer(optResult.output).output = optResult.output

\* C17: for oAuth1Api and oAuth2Api the returned function hands the request
\* to the OAuth1 helper, respectively to the OAuth2 helper with the fixed
\* option {tokenType: Bearer}; the request object is passed with none of
\* its fields changed; no credential lookup is made and the plain transport
\* is not called.
C17_OAuthDelegates ==
  \A c \in Calls :
    IsGeneric(c, "oAuth1Api") \/ IsGeneric(c, "oAuth2Api")
    => /\ credLookups[c] = <<>>
       /\ pc[c] \notin {"awaitCredentials", "resolveFailed"}
       /\ pc[c] = "threw" => error[c] = CollaboratorError
       /\ Dispatched(c)
          => /\ Len(sent[c]) = 1
             /\ sent[c][1].request = original[c]
             /\ requestOptions[c] = original[c]
             /\ IsGeneric(c, "oAuth1Api") =>
                  /\ sent[c][1].collaborator = "requestOAuth1"
                  /\ sent[c][1].options.shape = "undefined"
             /\ IsGeneric(c, "oAuth2Api") =>
                  /\ sent[c][1].collaborator = "requestOAuth2"
                  /\ sent[c][1].options.shape = "IOAuth2Options"
                  /\ sent[c][1].options.value =
                       OAuth2Options("Bearer", Unset, Unset, Unset, Unset,
                                     Unset)

\* the OAuth2 helper got the full request, unchanged, with the token type
C17_Witness ==
  /\ IsGeneric(1, "oAuth2Api")
  /\ pc[1] = "returned"
  /\ original[1] = RequestFull
  /\ sent[1][1].collaborator = "requestOAuth2"
  /\ sent[1][1].request = RequestFull
  /\ sent[1][1].options.value.tokenType = "Bearer"

IsPredefined(c) == nodeParams[c].auth = "predefinedCredentialType"

C18_WitnessNoEntry ==
  /\ IsPredefined(1)
  /\ nodeParams[1].nodeCredentialType = "githubApi"
  /\ pc[1] = "returned"
  /\ sent[1][1].options.shape = "undefined"

\* call c is configured with a generic kind the code has no branch for, or
\* with an auth value that is neither generic nor predefined
FallsThrough(c) ==
  \/ /\ nodeParams[c].auth = "genericCredentialType"
     /\ nodeParams[c].genericAuthType \notin
          {"httpBasicAuth", "httpDigestAuth", "httpHeaderAuth",
           "httpQueryAuth", "httpCustomAuth", "oAuth1Api", "oAuth2Api"}
  \/ nodeParams[c].auth \notin
       {"genericCredentialType", "predefinedCredentialType"}

\* C19: with a generic kind that is none of the seven recognized ones the
\* resolution does not fail: the plain transport function is returned,
\* which makes no credential lookup and does not change the request; the
\* same holds for every auth value other than genericCredentialType and
\* predefinedCredentialType.
C19_UnknownKindIsPlain ==
  \A c \in Calls :
    FallsThrough(c) /\ pc[c] # "unused"
    => /\ credLookups[c] = <<>>
       /\ pc[c] \notin {"awaitCredentials", "resolveFailed"}
       /\ pc[c] # "start" => fn[c].strategy = "plain"
       /\ pc[c] = "threw" => error[c] = CollaboratorError
       /\ Dispatched(c)
          => /\ sent[c] = <<httpRequest(original[c])>>
             /\ requestOptions[c] = original[c]

\* the unknown generic kind sent the full request through the plain transport
C19_Witness ==
  /\ IsGeneric(1, UnknownKind)
  /\ pc[1] = "returned"
  /\ original[1] = RequestFull
  /\ sent[1] = <<httpRequest(RequestFull)>>

\* C20: for httpBasicAuth and httpDigestAuth the dispatched request has
\* auth = {username: user, password: password, sendImmediately} of the
\* credential, sendImmediately being false for digest and unset for basic;
\* an auth value the request held is overwritten; headers, qs and body are
\* unchanged.
C20_BasicAuthRecord ==
  \A c \in Calls :
    (IsGeneric(c, "httpBasicAuth") \/ IsGeneric(c, "httpDigestAuth"))
    /\ Dispatched(c)
    => /\ Len(sent[c]) = 1
       /\ sent[c][1].collaborator = "httpRequest"
       /\ sent[c][1].request = requestOptions[c]
       /\ DOMAIN requestOptions[c].auth.v
            = {kUsername, kPassword, kSendImmediately}
       /\ requestOptions[c].auth.v[kUsername] = fn[c].credential.user
       /\ requestOptions[c].auth.v[kPassword] = fn[c].credential.password
       /\ fn[c].credential.user.t = "str"
       /\ requestOptions[c].auth.v[kSendImmediately] =
            IF IsGeneric(c, "httpDigestAuth") THEN Bool(FALSE) ELSE Undefined
       /\ requestOptions[c].headers = original[c].headers
       /\ requestOptions[c].qs = original[c].qs
       /\ requestOptions[c].body = original[c].body

\* digest: the auth record the request held was replaced, sendImmediately
\* being false
C20_Witness ==
  /\ IsGeneric(1, "httpDigestAuth")
  /\ pc[1] = "returned"
  /\ original[1] = RequestFull
  /\ sent[1][1].request.auth.v[kUsername] # sOld
  /\ sent[1][1].request.auth.v[kSendImmediately] = Bool(FALSE)
  /\ sent[1][1].request.headers = RequestFull.headers

\* C21: with httpQueryAuth and credential {name, value}, a request without
\* qs gets an empty one, then qs[name] = value is set; every query
\* parameter present under another key is preserved; headers, body and auth
\* are unchanged.
C21_QueryAuthFrame ==
  \A c \in Calls :
    IsGeneric(c, "httpQueryAuth") /\ Dispatched(c)
    => /\ Len(sent[c]) = 1
       /\ sent[c][1].collaborator = "httpRequest"
       /\ sent[c][1].request = requestOptions[c]
       /\ requestOptions[c].qs.t = "obj"
       /\ fn[c].credential.value.t = "str"
       /\ Prop(requestOptions[c].qs, fn[c].credential.name)
            = fn[c].credential.value
       /\ KeysOf(requestOptions[c].qs)
            = KeysOf(original[c].qs) \cup {fn[c].credential.name}
       /\ \A k \in KeysOf(original[c].qs) \ {fn[c].credential.name} :
            requestOptions[c].qs.v[k] = original[c].qs.v[k]
       /\ requestOptions[c].headers = original[c].headers
       /\ requestOptions[c].body = original[c].body
       /\ requestOptions[c].auth = original[c].auth

\* a request whose qs held the credential's key and another key: the first
\* was overwritten, the second kept
C21_Witness ==
  /\ IsGeneric(1, "httpQueryAuth")
  /\ pc[1] = "returned"
  /\ original[1] = RequestFull
  /\ fn[1].credential.name = kX
  /\ requestOptions[1].qs = Obj(kX :> Str(<<"q", "1">>) @@ kB :> sKeep)

\* a request without qs got one holding the credential's key alone
C21_WitnessNoQs ==
  /\ IsGeneric(1, "httpQueryAuth")
  /\ pc[1] = "returned"
  /\ original[1] = RequestBare
  /\ KeysOf(requestOptions[1].qs) = {fn[1].credential.name}

\* the k-th smallest member of a set of positions
NthOf(S, k) == CHOOSE p \in S : Cardinality({q \in S : q <= p}) = k

\* the positions of a text that hold no white space
Visible(text) == {i \in 1..Len(text) : text[i] \notin Whitespace}

\* out is the text `in` normalized: the same visible characters in the same
\* order; white space only as single spaces between visible characters; a
\* space exactly where the gap of `in` held white space other than line
\* breaks
IsNormalized(out, in) ==
  /\ Cardinality(Visible(out)) = Cardinality(Visible(in))
  /\ \A k \in 1..Cardinality(Visible(in)) :
       out[NthOf(Visible(out), k)] = in[NthOf(Visible(in), k)]
  /\ \A i \in 1..Len(out) :
       out[i] \in Whitespace =>
         /\ out[i] = " "
         /\ 1 < i /\ i < Len(out)
         /\ out[i - 1] \notin Whitespace
         /\ out[i + 1] \notin Whitespace
  /\ \A k \in 1..(Cardinality(Visible(in)) - 1) :
       (NthOf(Visible(out), k + 1) > NthOf(Visible(out), k) + 1)
       <=> \E j \in (NthOf(Visible(in), k) + 1)..(NthOf(Visible(in), k + 1) - 1) :
             in[j] \notin {"\n", "\r"}

\* the text of the element opening at position i, as it reaches the
\* normalization
Unnormalized(i) ==
  IF optimizer.onlyContent
  THEN convert(InnerAt(optInput.value.v, optParams.cssSelector, i),
               optimizer.elementsToOmit)
  ELSE InnerAt(optInput.value.v, optParams.cssSelector, i)

\* C22: every string of the html function's output array is normalized: no
\* leading or trailing white space, no line break (line breaks inside are
\* deleted, not replaced by a space), and no run of two or more white space
\* characters (each run is a single space).
C22_WhitespaceNormalized ==
  HtmlReturned /\ optResult.threw = NoError =>
    /\ OutputIsArray
    /\ \A i \in Starts(optInput.value.v, optParams.cssSelector) :
         IsNormalized(
           OutputItems[Cardinality(
             {j \in Starts(optInput.value.v, optParams.cssSelector) :
                j <= i})].v,
           Unnormalized(i))

\* an element with spaces, a tab and line breaks around and inside its
\* content: the line break between two tags is gone, the runs are spaces
C22_Witness ==
  /\ HtmlReturned
  /\ ~optParams.onlyContent
  /\ optParams.cssSelector = tagLi
  /\ optInput.value = Str(HtmlSpaced)
  /\ OutputItems =
       <<Str(<<"T", " ", "w", " ">> \o Element(<<"b">>, <<"x">>)
             \o Element(<<"i">>, <<"y", " ">>) \o <<" ", "z">>)>>

\* C23: for the kind oAuth2Api, the credential type handed to the OAuth2
\* signing helper is oAuth2Api, the selected kind.
C23_OAuth2CredentialType ==
  \A c \in Calls :
    IsGeneric(c, "oAuth2Api") /\ Dispatched(c) =>
      /\ sent[c][1].collaborator = "requestOAuth2"
      /\ sent[c][1].credentialsType = "oAuth2Api"

\* what the source does: the OAuth2 helper is handed the OAuth1 credential
\* type
C23_OAuth2SignedAsOAuth1 ==
  \A c \in Calls :
    IsGeneric(c, "oAuth2Api") /\ Dispatched(c) =>
      /\ sent[c][1].collaborator = "requestOAuth2"
      /\ sent[c][1].credentialsType = "oAuth1Api"

\* call c has asked for its credentials
LookedUp(c) == pc[c] \notin {"start", "unused"}

\* C24: for each generic kind that fetches a credential record, the
\* credential type asked of ctx.getCredentials is the selected kind, and it
\* is asked with the call's item index.
C24_LookupOfSelectedKind ==
  \A c \in Calls : \A kind \in CredentialKinds :
    IsGeneric(c, kind) /\ LookedUp(c) =>
      /\ Len(credLookups[c]) = 1
      /\ credLookups[c][1].type = kind
      /\ credLookups[c][1].itemIndex = ItemIndex(c)

\* what the source does: the item index is the call's, the type is the
\* selected kind except for httpDigestAuth, which asks for httpBasicAuth
C24_DigestLooksUpBasic ==
  \A c \in Calls : \A kind \in CredentialKinds :
    IsGeneric(c, kind) /\ LookedUp(c) =>
      /\ Len(credLookups[c]) = 1
      /\ credLookups[c][1].itemIndex = ItemIndex(c)
      /\ kind # "httpDigestAuth" => credLookups[c][1].type = kind
      /\ kind = "httpDigestAuth" => credLookups[c][1].type = "httpBasicAuth"

\* the function of call c has been returned
Resolved(c) == pc[c] \in {"resolved", "awaitResponse", "returned", "threw"}

FetchesCredentials(c) == \E kind \in CredentialKinds : IsGeneric(c, kind)

\* one lookup before the function is returned and none after, however often
\* the function is invoked; after a failed lookup the call has the lookup's
\* error, no function and no collaborator call
C25_LookupState ==
  \A c \in Calls :
    FetchesCredentials(c) =>
      /\ pc[c] = "start" => credLookups[c] = <<>>
      /\ LookedUp(c) => Len(credLookups[c]) = 1
      /\ Resolved(c) => fn[c] # NoFunction /\ error[c] # CredentialsError
      /\ pc[c] = "resolveFailed" =>
           /\ error[c] = CredentialsError
           /\ fn[c] = NoFunction
           /\ sent[c] = <<>>
           /\ invocations[c] = 0

\* no step after the lookup asks for credentials again, and a failed
\* resolution stays failed
C25_LookupStep ==
  \A c \in Calls :
    /\ LookedUp(c) => credLookups'[c] = credLookups[c]
    /\ pc[c] = "resolveFailed" => pc'[c] = "resolveFailed"

\* C25: credentials are looked up at resolve time only: exactly one lookup
\* before the function is returned, none when the function is invoked; a
\* failed lookup fails the resolution with that error, returns no function
\* and no collaborator call is ever made.
C25_LookupAtResolveOnly == []C25_LookupState /\ [][C25_LookupStep]_vars

\* the function was invoked as often as the bound allows, after one lookup
C25_Witness ==
  \E c \in Calls :
    /\ FetchesCredentials(c)
    /\ invocations[c] = MaxInvocations
    /\ pc[c] = "returned"
    /\ Len(credLookups[c]) = 1

\* the lookup failed
C25_WitnessFailed ==
  \E c \in Calls :
    /\ FetchesCredentials(c)
    /\ pc[c] = "resolveFailed"
    /\ Len(credLookups[c]) = 1

\* the html function was built from a string elementsToOmit and has run
HtmlRan ==
  /\ HtmlReturned
  /\ optResult.threw = NoError
  /\ optParams.elementsToOmit.t = "str"

\* the entries of a list that are not empty
NonEmptyEntries(entries) == SelectSeq(entries, LAMBDA e : Len(e) > 0)

\* without onlyContent elementsToOmit is not read and each output string is
\* the normalized markup of its element, tags included
NotFlattened ==
  /\ paramReads["elementsToOmit"] = 0
  /\ \A i \in Starts(optInput.value.v, optParams.cssSelector) :
       OutputItems[Cardinality(
         {j \in Starts(optInput.value.v, optParams.cssSelector) : j <= i})].v
       = Normalize(InnerAt(optInput.value.v, optParams.cssSelector, i))

\* C26: with onlyContent = true the text flattener is given skip selectors
\* exactly for the non-empty entries of elementsToOmit, none at all for the
\* empty string; with onlyContent = false the flattener is not called and
\* elementsToOmit is not read.
C26_SkipSelectorsForNonEmptyEntries ==
  HtmlRan =>
    /\ optParams.onlyContent =>
         /\ [i \in 1..Len(htmlToTextOptions(optimizer.elementsToOmit).selectors)
               |-> htmlToTextOptions(optimizer.elementsToOmit).selectors[i]
                     .selector]
            = NonEmptyEntries(SplitAndTrim(optParams.elementsToOmit.v))
         /\ optParams.elementsToOmit.v = <<>> =>
              htmlToTextOptions(optimizer.elementsToOmit).selectors = <<>>
    /\ ~optParams.onlyContent => NotFlattened

\* what the source does: every entry of the split list becomes a skip
\* selector, so the empty string gives one selector whose text is empty
C26_EmptyEntryIsASelector ==
  HtmlRan =>
    /\ optParams.onlyContent =>
         /\ htmlToTextOptions(optimizer.elementsToOmit).selectors
            = [i \in 1..Len(SplitAndTrim(optParams.elementsToOmit.v)) |->
                 [selector |-> SplitAndTrim(optParams.elementsToOmit.v)[i],
                  format |-> "skip"]]
         /\ optParams.elementsToOmit.v = <<>> =>
              htmlToTextOptions(optimizer.elementsToOmit)
              = [defined |-> TRUE,
                 selectors |-> <<[selector |-> <<>>, format |-> "skip"]>>]
    /\ ~optParams.onlyContent => NotFlattened

(***************************************************************************)
(* Properties of the License object.                                       *)
(***************************************************************************)
\* at most one manager was ever installed; without a manager nothing is
\* awaited and isFeatureEnabled has only answered false
C27_OneManagerState ==
  /\ installs <= 1
  /\ manager = NoManager <=> installs = 0
  /\ manager = NoManager =>
       /\ \A k \in LicenseCalls : licensePc[k] = "idle"
       /\ lastAnswer.enabled = FALSE

\* an installed manager stays the one it is and no other is constructed or
\* initialized; without a manager only init starts anything
C27_OneManagerStep ==
  /\ manager # NoManager =>
       /\ manager'.id = manager.id
       /\ installs' = installs
       /\ \A k \in LicenseCalls :
            licensePc'[k] = "initialize" => licensePc[k] = "initialize"
  /\ manager = NoManager /\ manager' = NoManager => licensePc' = licensePc

\* C27: across any interleaving of init, activate, renew and
\* isFeatureEnabled at most one LicenseManager is ever installed: after
\* that every init returns without constructing or initializing another
\* and the manager is never replaced or cleared; without a manager
\* isFeatureEnabled returns false and activate and renew do nothing.
C27_AtMostOneManager == []C27_OneManagerState /\ [][C27_OneManagerStep]_vars

\* init was called again while the first call still awaited initialize, and
\* once more: one manager
C27_Witness ==
  /\ initCalls = MaxInitCalls
  /\ installs = 1
  /\ manager.id = 1
  /\ manager.valid
  /\ lastAnswer.enabled

\* isFeatureEnabled was asked while no manager was installed, after an init
\* whose constructor threw
C27_WitnessNoManager ==
  /\ manager = NoManager
  /\ initCalls > 0
  /\ lastAnswer.feature # ""

(***************************************************************************)
(* Properties of the users store.                                          *)
(***************************************************************************)
\* C28: after any sequence of the store's actions currentUserId is null or
\* the id of a user in the users map, so the getter currentUser never
\* yields a missing user while currentUserId is set.
C28_CurrentUserPresent ==
  /\ state.currentUserId = NoUser \/ state.currentUserId \in DOMAIN state.users
  /\ currentUser(state) # MissingUser

\* what the source keeps: only a step that takes a user out of the map
\* leaves currentUserId without its user
C28_OnlyDeletionBreaksIt ==
  [][C28_CurrentUserPresent /\ DOMAIN state.users \subseteq DOMAIN state'.users
     => C28_CurrentUserPresent']_vars

=============================================================================
